---- MODULE Spec2Model ----
(***************************************************************************)
(* A model of the matchlock Python SDK client                               *)
(* (sdk/python/matchlock/client.py): the JSON-RPC transport over the        *)
(* supervisor subprocess' stdin/stdout, the reader thread, the pending      *)
(* table, request timeouts with fire-and-forget cancel, and the             *)
(* start/create/close lifecycle.                                            *)
(*                                                                          *)
(* Caller threads, the reader thread and the supervisor process interleave  *)
(* at the granularity of the statements that touch shared state.            *)
(***************************************************************************)
EXTENDS Integers, Sequences, FiniteSets, TLC

\* ---------------------------------------------------------------- bounds
NumCalls == 2       \* public calls made on the one Client, each on its own thread
MaxResp == 2        \* responses the supervisor emits over the client's lifetime
NumStarts == 3      \* start() calls made on the one Client, each on its own thread
MaxRules == 2       \* rules in a configuration with more than one rule
MaxRemoves == 1     \* remove() calls made on the one Client
MaxEvents == 1      \* event notifications the supervisor emits
MaxDepth == 1       \* nesting of events delivered from inside a running callback
MaxLen == 3         \* bytes in the content given to write_file
MaxChunks == 2      \* stream notifications the supervisor emits

\* Caller threads. Each makes one public call; the code keeps no per-thread
\* state, so a thread that makes several calls in a row behaves as several of
\* these run one after the other, and thread t+1 is taken to enter after thread t.
Threads == 1..NumCalls
\* threads that call start() (or enter the context manager) on the one Client
Starters == 1..NumStarts
\* every call allocates at most two ids (its own and the cancel's)
IdBound == 2 * NumCalls
Ids == 1..IdBound

None == "none"
\* the three local hook tables, all []
NoHooks == [ev |-> <<>>, mut |-> <<>>, act |-> <<>>]

VARIABLES
    process,      \* Client._process: "none" | "proc"
    procExited,   \* Popen.poll() is not None
    stdinOpen,    \* Client._process.stdin not yet closed by the client
    stdoutClosed, \* the supervisor closed its stdout (EOF after buffered lines)
    stdin,        \* lines written and flushed to the supervisor, in order
    stdout,       \* lines the supervisor wrote, not yet read by the reader
    sent,         \* every response the supervisor has emitted (history)
    request_id,   \* Client._request_id
    issued,       \* the ids _next_id has returned, in order (history)
    pending,      \* keys of Client._pending
    preq,         \* the _PendingRequest object created for each id
    closed,       \* Client._closed
    vm_id,        \* Client._vm_id
    last_vm_id,   \* Client._last_vm_id
    hooks,        \* the local hook tables (replaced as one under _vfs_hook_lock)
    reader_pc,    \* reader thread: "none" | "read" | "done"
    pc,           \* per caller thread: position in its call
    op,           \* per caller thread: the public method it is in
    tmo,          \* per caller thread: _send_request was given a timeout
    rid,          \* per caller thread: req_id of its _send_request
    cid,          \* per caller thread: cancel_id of its _send_cancel
    out,          \* per caller thread: how its _send_request ended
    ccfg,         \* per caller thread: hook tables compiled by its create()
    spc,          \* per starter thread: position in its start() call
    live,         \* supervisor subprocesses spawned by this client and still alive
    readers,      \* reader threads started by this client and still running
    cfg_in,       \* the VFSInterceptionConfig handed to _compile_vfs_hooks
    compiled,     \* what _compile_vfs_hooks returned or raised for cfg_in
    hook_active,  \* Client._vfs_hook_active
    hthreads,     \* background callback threads started by the event dispatcher
    began,        \* every event callback that began executing (history)
    events,       \* number of event notifications the supervisor has emitted
    delivered,    \* every event handed to _handle_vfs_file_event (history)
    rm_runs,      \* per remove() call: the VM id `<binary_path> rm` was run
                  \* with (0: no command was run) and whether the call raised
    fcall,        \* per caller thread: arguments and locals of its file call
    sinks,        \* per caller thread: the sinks given to its exec_stream call
    files,        \* the supervisor's files: what write_file stored under a path
    notif,        \* the reader's notification in hand, and all it has read
    locks,        \* per lock of the client: the thread inside its `with` block
    pipe,         \* the pieces of text that have reached the supervisor's stdin
    wbuf,         \* per thread, the pieces of its text not yet in the pipe
    rmsg          \* the line the reader has read and is handling

vars == <<process, procExited, stdinOpen, stdoutClosed, stdin, stdout, sent,
          request_id, issued, pending, preq, closed, vm_id, last_vm_id, hooks,
          reader_pc, pc, op, tmo, rid, cid, out, ccfg, spc, live, readers,
          cfg_in, compiled, hook_active, hthreads, began, events, delivered,
          rm_runs, fcall, sinks, files, notif, locks, pipe, wbuf, rmsg>>

procVars == <<process, procExited, stdinOpen, stdoutClosed>>
supVars == <<stdout, sent>>
idVars == <<request_id, issued>>
vmVars == <<closed, vm_id, last_vm_id, hooks>>
callVars == <<op, tmo, rid, cid, out, ccfg>>
startVars == <<spc, live, readers>>
compVars == <<cfg_in, compiled>>
dispVars == <<hook_active, hthreads, began, events, delivered>>
extVars == <<compVars, dispVars, rm_runs>>
lockVars == <<locks, pipe, wbuf, rmsg>>
ioVars == <<fcall, sinks, files, notif, lockVars>>

\* ------------------------------------------------------------ data shapes
NoErr == [kind |-> "none", val |-> 0]
ClosedErr == [kind |-> "closed_unexpectedly", val |-> 0]
RPCError(v) == [kind |-> "rpc_error", val |-> v]

\* _PendingRequest.__init__
NewPending == [event |-> FALSE, result |-> 0, error |-> NoErr, data |-> <<>>]

NoOut == [kind |-> "none", val |-> 0]
Outcome(k, v) == [kind |-> k, val |-> v]

\* {"method": m, "params": ..., "id": i}; wire is params.vfs.interception
RequestLine(m, i, w) == [method |-> m, id |-> i, target |-> 0, wire |-> w]

\* the JSON-RPC method each public call sends
MethodOf(o) == CASE o = "create" -> "create"
                 [] o = "close" -> "close"
                 [] o \in {"write_file", "read_file", "list_files",
                            "exec_stream"} -> o
                 [] OTHER -> "exec"

\* what the supervisor computes for the request with id i (for create, the VM id)
Payload(i) == i

\* ------------------------------------------- VFS rules and their compilation
\* types.py: VFS_HOOK_PHASE_BEFORE, VFS_HOOK_PHASE_AFTER, VFS_HOOK_ACTION_ALLOW
VFS_HOOK_PHASE_BEFORE == "before"
VFS_HOOK_PHASE_AFTER == "after"
VFS_HOOK_ACTION_ALLOW == "allow"

\* the values a caller may put in the fields of a VFSHookRule
Callbacks == {None, "cb"}
RulePhases == {"", "before", "after", "AFTER"}
RuleActions == {"", "allow", " Allow ", "block", "mutate_write", "Mutate_Write",
                "exec_after"}
RuleOps == {<<>>, <<"Write", "">>}
RulePaths == {"", "/w/*"}

\* VFSHookRule (name and timeout_ms play no part in the compilation's decisions)
RuleSpace ==
    [hook : Callbacks, dangerous_hook : Callbacks, mutate_hook : Callbacks,
     action_hook : Callbacks, phase : RulePhases, action : RuleActions,
     ops : RuleOps, path : RulePaths]

\* str.lower() on the strings above
Lower(x) == CASE x = "AFTER" -> "after"
              [] x = "Write" -> "write"
              [] x = "Allow" -> "allow"
              [] x = "Mutate_Write" -> "mutate_write"
              [] x = "Block" -> "block"
              [] x = " Allow " -> " allow "
              [] x = " Block " -> " block "
              [] OTHER -> x

\* str.strip() on the strings above
Strip(x) == CASE x = " Allow " -> "Allow"
              [] x = " Block " -> "Block"
              [] OTHER -> x

\* action = (rule.action or "").strip().lower()
NormAction(r) == Lower(Strip(r.action))

\* ops = {op.lower() for op in rule.ops if op}
NormOps(r) == {Lower(r.ops[k]) : k \in {j \in DOMAIN r.ops : r.ops[j] # ""}}

\* callback_count = sum(1 for cb in callbacks if cb is not None)
CallbackCount(r) ==
    Cardinality({f \in {"hook", "dangerous_hook", "mutate_hook", "action_hook"} :
                    r[f] # None})

RuleError(why) == [kind |-> "error", reason |-> why]
\* _LocalVFSHook(name, ops, path, timeout_ms, dangerous, hook)
LocalVFSHook(r, d) ==
    [kind |-> "event", ops |-> NormOps(r), path |-> r.path, dangerous |-> d,
     hook |-> IF d THEN r.dangerous_hook ELSE r.hook]
\* _LocalVFSMutateHook(name, ops, path, hook)
LocalVFSMutateHook(r) ==
    [kind |-> "mutate", ops |-> NormOps(r), path |-> r.path, hook |-> r.mutate_hook]
\* _LocalVFSActionHook(name, ops, path, hook)
LocalVFSActionHook(r) ==
    [kind |-> "action", ops |-> NormOps(r), path |-> r.path, hook |-> r.action_hook]
\* wire.rules.append(rule)
WireRule(r) == [kind |-> "wire", rule |-> r]

\* (mutation) the callbacks are not counted
CompileRuleUncounted(r) ==
    IF r.hook # None THEN LocalVFSHook(r, FALSE)
    ELSE IF r.dangerous_hook # None THEN LocalVFSHook(r, TRUE)
    ELSE IF r.action_hook # None THEN LocalVFSActionHook(r)
    ELSE IF r.mutate_hook # None THEN LocalVFSMutateHook(r)
    ELSE WireRule(r)

\* (mutation) the phase of a rule is not looked at
CompileRuleAnyPhase(r) ==
    IF CallbackCount(r) > 1 THEN RuleError("more than one callback")
    ELSE IF CallbackCount(r) = 0
    THEN IF NormAction(r) \in {"mutate_write", "exec_after"}
         THEN RuleError("unsupported action") ELSE WireRule(r)
    ELSE IF NormAction(r) \notin {"", VFS_HOOK_ACTION_ALLOW}
    THEN RuleError("callback with action")
    ELSE CompileRuleUncounted(r)

\* _compile_vfs_hooks, the body of `for rule in cfg.rules`: what one rule
\* becomes, or the MatchlockError it raises
CompileRule(r) ==
    IF CallbackCount(r) > 1 THEN RuleError("cannot set more than one callback hook")
    ELSE IF CallbackCount(r) = 0
    THEN IF NormAction(r) = "mutate_write"
         THEN RuleError("mutate_write requires mutate_hook callback")
         ELSE IF NormAction(r) = "exec_after"
         THEN RuleError("action=exec_after is unsupported")
         ELSE WireRule(r)
    ELSE IF r.hook # None
    THEN IF NormAction(r) \notin {"", VFS_HOOK_ACTION_ALLOW}
         THEN RuleError("callback hooks cannot set action")
         ELSE IF Lower(r.phase) # VFS_HOOK_PHASE_AFTER
         THEN RuleError("callback hooks must use phase=after")
         ELSE LocalVFSHook(r, FALSE)
    ELSE IF r.dangerous_hook # None
    THEN IF NormAction(r) \notin {"", VFS_HOOK_ACTION_ALLOW}
         THEN RuleError("dangerous_hook cannot set action")
         ELSE IF Lower(r.phase) # VFS_HOOK_PHASE_AFTER
         THEN RuleError("dangerous_hook must use phase=after")
         ELSE LocalVFSHook(r, TRUE)
    ELSE IF r.action_hook # None
    THEN IF NormAction(r) \notin {"", VFS_HOOK_ACTION_ALLOW}
         THEN RuleError("action_hook cannot set action")
         ELSE IF r.phase # "" /\ Lower(r.phase) # VFS_HOOK_PHASE_BEFORE
         THEN RuleError("action_hook must use phase=before")
         ELSE LocalVFSActionHook(r)
    ELSE IF NormAction(r) \notin {"", VFS_HOOK_ACTION_ALLOW}
         THEN RuleError("mutate_hook cannot set action")
         ELSE IF r.phase # "" /\ Lower(r.phase) # VFS_HOOK_PHASE_BEFORE
         THEN RuleError("mutate_hook must use phase=before")
         ELSE LocalVFSMutateHook(r)

\* (mutation) the compiled rules of the given kind, last rule first
RECURSIVE CollectReversed(_, _)
CollectReversed(cs, k) ==
    IF cs = <<>> THEN <<>>
    ELSE IF Head(cs).kind = k THEN CollectReversed(Tail(cs), k) \o <<Head(cs)>>
    ELSE CollectReversed(Tail(cs), k)

\* the compiled rules of the given kind, in the order of the input rules
RECURSIVE Collect(_, _)
Collect(cs, k) ==
    IF cs = <<>> THEN <<>>
    ELSE IF Head(cs).kind = k THEN <<Head(cs)>> \o Collect(Tail(cs), k)
    ELSE Collect(Tail(cs), k)

\* vfs_interception = None, and the wire config None
NoConfig == [absent |-> TRUE]
NoWire == [absent |-> TRUE]

\* the three local hook tables, as _set_local_vfs_hooks replaces them
HookTables(e, m, a) == [ev |-> e, mut |-> m, act |-> a]

\* (mutation) emit_events is copied from the input and never forced
EmitEventsConfigOnly(cfg, local) == cfg.emit_events

\* wire.emit_events after the loop: if local: wire.emit_events = True
EmitEvents(cfg, local) == cfg.emit_events \/ local # <<>>

\* wire_out: None if not wire.rules and not wire.emit_events, else wire
WireOut(wrules, emit) ==
    IF wrules = <<>> /\ ~emit THEN NoWire
    ELSE [emit_events |-> emit, rules |-> wrules]

\* _compile_vfs_hooks(cfg): (wire_out, local, local_mutate, local_action), or
\* the error of the first rule that is rejected
CompileVfsHooks(cfg) ==
    IF cfg = NoConfig
    THEN [kind |-> "ok", wire |-> NoWire, tables |-> HookTables(<<>>, <<>>, <<>>)]
    ELSE LET cs == [k \in DOMAIN cfg.rules |-> CompileRule(cfg.rules[k])]
             bad == {k \in DOMAIN cs : cs[k].kind = "error"}
             local == Collect(cs, "event")
             wrules == Collect(cs, "wire")
         IN IF bad # {}
            THEN cs[CHOOSE k \in bad : \A j \in bad : k <= j]
            ELSE [kind |-> "ok",
                  wire |-> WireOut([k \in DOMAIN wrules |-> wrules[k].rule],
                                   EmitEvents(cfg, local)),
                  tables |-> HookTables(local, Collect(cs, "mutate"),
                                        Collect(cs, "action"))]

NotCompiled == [kind |-> "none"]

\* (mutation) only the event table is replaced
SetLocalVfsHooksEventsOnly(cur, new) == [cur EXCEPT !.ev = new.ev]

\* (mutation) assigning three empty tables leaves the tables as they are
SetLocalVfsHooksKeep(cur, new) == IF new = NoHooks THEN cur ELSE new

\* _set_local_vfs_hooks: the three tables are assigned under _vfs_hook_lock
SetLocalVfsHooks(cur, new) == new

\* rules used in the configurations handed to create()
EventRule ==
    [hook |-> "cb", dangerous_hook |-> None, mutate_hook |-> None,
     action_hook |-> None, phase |-> "after", action |-> "allow", ops |-> <<>>,
     path |-> ""]
DangerousRule ==
    [EventRule EXCEPT !.hook = None, !.dangerous_hook = "cb"]
BlockRule ==
    [EventRule EXCEPT !.hook = None, !.phase = "before", !.action = "block"]
MutateRule ==
    [EventRule EXCEPT !.hook = None, !.mutate_hook = "cb", !.phase = "before"]
BeforeEventRule == [EventRule EXCEPT !.phase = "before"]
ActionRule ==
    [EventRule EXCEPT !.hook = None, !.action_hook = "cb", !.phase = "before"]
\* the same kinds of rule restricted to a path, to tell two rules of a kind apart
AllowRuleW ==
    [EventRule EXCEPT !.hook = None, !.phase = "before", !.path = "/w/*"]
MutateRuleW == [MutateRule EXCEPT !.path = "/w/*"]
ActionRuleW == [ActionRule EXCEPT !.path = "/w/*"]
\* an action rule for the write operation only
ActionRuleWrite == [ActionRule EXCEPT !.ops = <<"Write", "">>]

\* CreateOptions: the image and the vfs_interception of a create() call
CreateOptions(img, cfg) == [image |-> img, vfs_interception |-> cfg]
VFSInterceptionConfig(rs) == [emit_events |-> FALSE, rules |-> rs]
ValidCreates ==
    {CreateOptions("img", VFSInterceptionConfig(<<EventRule>>)),
     CreateOptions("img", VFSInterceptionConfig(<<BlockRule, DangerousRule,
                                                   MutateRule>>))}
InvalidCreates ==
    {CreateOptions("", VFSInterceptionConfig(<<EventRule>>)),
     CreateOptions("img", VFSInterceptionConfig(<<EventRule, BeforeEventRule>>))}
CreateInputs == ValidCreates \cup InvalidCreates

\* what a thread remembers of its create(): the options and the compiled result
NoCreate == [opts |-> [absent |-> TRUE], res |-> NotCompiled]

\* ------------------------------------------------ bytes, text and base64
\* the byte values used: an ASCII letter and a byte no UTF-8 text contains
ByteValues == {97, 255}
\* the byte strings given to write_file
ByteStrings == UNION {[1..n -> ByteValues] : n \in 0..MaxLen}

\* Python values: bytes (a sequence of byte values), str (a sequence of code
\* points), None, and a value of some other type
Bytes(v) == [t |-> "bytes", v |-> v]
Str(v) == [t |-> "str", v |-> v]
NoValue == [t |-> "none", v |-> <<>>]
OtherValue == [t |-> "int", v |-> <<>>]

\* str.encode("utf-8"), for code points below 2048
RECURSIVE Utf8Encode(_)
Utf8Encode(cs) ==
    IF cs = <<>> THEN <<>>
    ELSE LET c == Head(cs) IN
         (IF c < 128 THEN <<c>> ELSE <<192 + (c \div 64), 128 + (c % 64)>>)
             \o Utf8Encode(Tail(cs))

\* bytes.decode("utf-8", errors="replace"), for the byte values above: the
\* byte 255 is never valid and becomes U+FFFD
Utf8Decode(bs) == [k \in DOMAIN bs |-> IF bs[k] < 128 THEN bs[k] ELSE 65533]

\* (mutation) base64 without the padding of the last group
RECURSIVE B64EncodeNoPad(_)
B64EncodeNoPad(bs) ==
    IF bs = <<>> THEN <<>>
    ELSE LET b1 == bs[1]
             b2 == IF Len(bs) >= 2 THEN bs[2] ELSE 0
             b3 == IF Len(bs) >= 3 THEN bs[3] ELSE 0
             n == b1 * 65536 + b2 * 256 + b3
         IN IF Len(bs) = 1 THEN <<n \div 262144, (n \div 4096) % 64>>
            ELSE IF Len(bs) = 2
            THEN <<n \div 262144, (n \div 4096) % 64, (n \div 64) % 64>>
            ELSE <<n \div 262144, (n \div 4096) % 64, (n \div 64) % 64, n % 64>>
                     \o B64EncodeNoPad(SubSeq(bs, 4, Len(bs)))

\* base64.b64encode: the text as a sequence of digits 0..63, with 64 for "="
RECURSIVE B64Encode(_)
B64Encode(bs) ==
    IF bs = <<>> THEN <<>>
    ELSE LET b1 == bs[1]
             b2 == IF Len(bs) >= 2 THEN bs[2] ELSE 0
             b3 == IF Len(bs) >= 3 THEN bs[3] ELSE 0
             n == b1 * 65536 + b2 * 256 + b3
         IN IF Len(bs) = 1 THEN <<n \div 262144, (n \div 4096) % 64, 64, 64>>
            ELSE IF Len(bs) = 2
            THEN <<n \div 262144, (n \div 4096) % 64, (n \div 64) % 64, 64>>
            ELSE <<n \div 262144, (n \div 4096) % 64, (n \div 64) % 64, n % 64>>
                     \o B64Encode(SubSeq(bs, 4, Len(bs)))

\* base64.b64decode of a text of digits and "=": the bytes, or binascii.Error
\* (ok false) when the last group is short or wrongly padded
RECURSIVE B64Decode(_)
B64Decode(ds) ==
    IF ds = <<>> THEN [ok |-> TRUE, v |-> <<>>]
    ELSE IF Len(ds) < 4 \/ ds[1] = 64 \/ ds[2] = 64 \/ (ds[3] = 64 /\ ds[4] # 64)
    THEN [ok |-> FALSE, v |-> <<>>]
    ELSE LET b1 == ds[1] * 4 + (ds[2] \div 16)
             b2 == (ds[2] % 16) * 16 + (ds[3] \div 4)
             b3 == (ds[3] % 4) * 64 + ds[4]
         IN IF ds[3] = 64 THEN [ok |-> TRUE, v |-> <<b1>>]
            ELSE IF ds[4] = 64 THEN [ok |-> TRUE, v |-> <<b1, b2>>]
            ELSE LET rest == B64Decode(SubSeq(ds, 5, Len(ds))) IN
                 [ok |-> rest.ok, v |-> <<b1, b2, b3>> \o rest.v]

\* ------------------------------------------------- the state of a file call
\* the paths given to the file calls
FilePaths == {"/w/f", "/x"}
\* the content given to write_file: bytes, or a str that is encoded first
ContentInputs == {Bytes(b) : b \in ByteStrings} \cup {Str(<<233>>)}
\* a few of them, of different lengths once encoded
ShortContents == {Bytes(<<>>), Bytes(<<97>>), Str(<<233>>)}
\* what a thread keeps of its file call: the arguments, the action and mutate
\* hooks it invoked, the content after the mutations, and the calls that had
\* returned when it was made
NoFile ==
    [path |-> "", content |-> NoValue, acts |-> <<>>, muts |-> <<>>,
     body |-> <<>>, prior |-> {}]
\* the sinks of an exec_stream call: whether stdout / stderr were given, what
\* was written to each, and whether a write came after the call had returned
NoSinks ==
    [has_out |-> FALSE, has_err |-> FALSE, out |-> <<>>, err |-> <<>>,
     late |-> FALSE]
\* a path under which the supervisor has stored nothing
NoData == [stored |-> FALSE, data |-> <<>>]
\* the client's locks, none of them held: _id_lock, _write_lock,
\* _pending_lock and _vfs_hook_lock
Free == 0
LockNames == {"id", "write", "pending", "hook"}
NoLocks == [l \in LockNames |-> Free]
\* the reader thread, as a holder of locks
ReaderId == NumCalls + 1
\* the reader has no line in hand
NoLine == [id |-> 0, kind |-> "none", val |-> 0]
\* the reader holds no notification
NoNotification ==
    [held |-> FALSE, kind |-> "", target |-> 0, data |-> <<>>, to |-> 0]

\* the methods exec_stream.stdout and exec_stream.stderr
StreamKinds == {"stdout", "stderr"}
\* the notifications the supervisor emits for a request: stdout chunks "a",
\* a byte that is not text followed by "a", and a text that is not base64;
\* and a stderr chunk "a"
Chunks ==
    {[kind |-> "stdout", data |-> B64Encode(<<97>>)],
     [kind |-> "stdout", data |-> B64Encode(<<255, 97>>)],
     [kind |-> "stdout", data |-> <<24, 16>>],
     [kind |-> "stderr", data |-> B64Encode(<<97>>)]}
\* one of them: text on stdout
PlainChunks == {[kind |-> "stdout", data |-> B64Encode(<<97>>)]}
\* the stdout, stderr and timeout arguments of exec_stream, given or None:
\* without a timeout, and with both sinks
StreamInputs ==
    {<<TRUE, TRUE, FALSE>>, <<TRUE, FALSE, FALSE>>, <<FALSE, FALSE, FALSE>>}
TimedInputs == {<<TRUE, TRUE, FALSE>>, <<TRUE, TRUE, TRUE>>}

\* Client.__init__
InitClient ==
    /\ process = None
    /\ procExited = FALSE
    /\ stdinOpen = FALSE
    /\ stdoutClosed = FALSE
    /\ stdin = <<>>
    /\ stdout = <<>>
    /\ sent = {}
    /\ request_id = 0
    /\ issued = <<>>
    /\ pending = {}
    /\ preq = [i \in Ids |-> NewPending]
    /\ closed = FALSE
    /\ vm_id = 0
    /\ last_vm_id = 0
    /\ hooks = NoHooks
    /\ reader_pc = "none"
    /\ pc = [t \in Threads |-> "idle"]
    /\ op = [t \in Threads |-> None]
    /\ tmo = [t \in Threads |-> FALSE]
    /\ rid = [t \in Threads |-> 0]
    /\ cid = [t \in Threads |-> 0]
    /\ out = [t \in Threads |-> NoOut]
    /\ ccfg = [t \in Threads |-> NoCreate]
    /\ spc = [s \in Starters |-> "idle"]
    /\ live = 0
    /\ readers = 0
    /\ compiled = NotCompiled
    /\ hook_active = FALSE
    /\ hthreads = <<>>
    /\ began = <<>>
    /\ events = 0
    /\ delivered = <<>>
    /\ rm_runs = <<>>
    /\ fcall = [t \in Threads |-> NoFile]
    /\ sinks = [t \in Threads |-> NoSinks]
    /\ files = [p \in FilePaths |-> NoData]
    /\ notif = [cur |-> NoNotification, seen |-> <<>>]
    /\ locks = NoLocks
    /\ pipe = <<>>
    /\ wbuf = [t \in Threads |-> <<>>]
    /\ rmsg = NoLine

Init == InitClient /\ cfg_in = NoConfig

\* the configurations _compile_vfs_hooks is applied to: none, every single
\* rule, and the sequences of up to MaxRules of the rules used with create()
SampleRules ==
    {EventRule, DangerousRule, BlockRule, MutateRule, BeforeEventRule,
     ActionRule, AllowRuleW, MutateRuleW, ActionRuleW}
RuleSeqs ==
    {<<r>> : r \in RuleSpace} \cup UNION {[1..n -> SampleRules] : n \in 0..MaxRules}
CompileInputs ==
    {NoConfig} \cup [emit_events : BOOLEAN, rules : RuleSeqs]

InitCompile == InitClient /\ cfg_in \in CompileInputs

\* ------------------------------------------------- helpers (pure functions)
\* (mutation) an id counter that starts over instead of growing
NextIdWrap(c) == IF c < 2 THEN c + 1 ELSE 1

\* _next_id: self._request_id += 1; return self._request_id
NextId(c) == c + 1

\* (mutation) the check without the poll() of the process
NotRunningNoPoll == process = None

\* _send_request: self._process is None or self._process.poll() is not None
NotRunning == process = None \/ procExited

\* stdin.write + flush succeed while the pipe is open on both ends
WriteOK == process # None /\ stdinOpen /\ ~procExited

\* (mutation) the entry is never inserted
RegisterNoop(pend, i) == pend

\* self._pending[req_id] = pending
Register(pend, i) == pend \cup {i}

\* (mutation) the finally block leaves the entry in the table
PopNoop(pend, i) == pend

\* self._pending.pop(req_id, None)
Pop(pend, i) == pend \ {i}

\* (mutation) the reader hands the response to whichever entry comes first
LookupAny(pend, i) ==
    IF pend = {} THEN 0 ELSE CHOOSE j \in pend : \A k \in pend : j <= k

\* (mutation) a response to an unknown id goes to the newest entry
LookupOrNewest(pend, i) ==
    IF i \in pend \/ pend = {} THEN (IF i \in pend THEN i ELSE 0)
    ELSE CHOOSE j \in pend : \A k \in pend : j >= k

\* self._pending.get(msg_id): the key of the entry found, 0 for None
Lookup(pend, i) == IF i \in pend THEN i ELSE 0

\* (mutation) the cancel names its own id instead of the timed-out request
CancelLineOwnId(c, target) ==
    [method |-> "cancel", id |-> c, target |-> c, wire |-> NoWire]

\* _send_cancel: {"method": "cancel", "params": {"id": target_id}, "id": cancel_id}
CancelLine(c, target) ==
    [method |-> "cancel", id |-> c, target |-> target, wire |-> NoWire]

\* reader: pending.error = RPCError(...) or pending.result = ...; pending.event.set()
Deliver(p, msg) ==
    IF msg.kind = "error"
    THEN [p EXCEPT !.error = RPCError(msg.val), !.event = TRUE]
    ELSE [p EXCEPT !.result = msg.val, !.event = TRUE,
                   !.data = IF "data" \in DOMAIN msg THEN msg.data ELSE @]

\* (mutation) only the first pending entry is failed at EOF
FailFirstOnly(pq, pend) ==
    [i \in Ids |-> IF i \in pend /\ \A k \in pend : i <= k
                   THEN [pq[i] EXCEPT !.error = ClosedErr, !.event = TRUE]
                   ELSE pq[i]]

\* reader at EOF: every pending entry gets the error and is signalled
FailAll(pq, pend) ==
    [i \in Ids |-> IF i \in pend
                   THEN [pq[i] EXCEPT !.error = ClosedErr, !.event = TRUE]
                   ELSE pq[i]]

\* _send_request after a successful wait: raise pending.error or return result
Completed(p) ==
    IF p.error # NoErr THEN Outcome(p.error.kind, p.error.val)
    ELSE Outcome("result", p.result)

\* (mutation) a response that arrived after the timeout is returned after all
TimedOutOutcomeLate(p) == IF p.event THEN Completed(p) ELSE Outcome("timeout", 0)

\* _send_request after wait() returned False: raise TimeoutError
TimedOutOutcome(p) == Outcome("timeout", 0)

\* (mutation) create() goes on to set vm_id whatever _send_request did
AfterSendIgnoringErrors(o, k) ==
    CASE o = "close" -> "cl_stdin"
      [] o = "create" -> "cr_setvm"
      [] OTHER -> "done"

\* where control goes when _send_request returns or raises into its caller
AfterSend(o, k) ==
    CASE o = "close" -> "cl_stdin"                       \* except Exception: pass
      [] o = "create" /\ k = "result" -> "cr_setvm"
      [] OTHER -> "done"

Answered == {m.id : m \in sent}

\* thread t may enter its call: the threads before it have entered theirs
MayEnter(t) == pc[t] = "idle" /\ \A u \in Threads : u < t => pc[u] # "idle"

\* ------------------------------------------------------------ start()
\* start(): if self._process is not None: return; Popen(...)
StartSpawn ==
    /\ process = None
    /\ process' = "proc"
    /\ stdinOpen' = TRUE
    /\ live' = live + 1
    /\ UNCHANGED <<ioVars, spc, readers, extVars, procExited, stdoutClosed, stdin,
                   supVars, idVars, pending, preq, vmVars, reader_pc, pc,
                   callVars>>

\* start(): self._reader_thread = Thread(target=self._reader_loop); start()
StartReader ==
    /\ process # None
    /\ reader_pc = "none"
    /\ reader_pc' = "read"
    /\ readers' = readers + 1
    /\ UNCHANGED <<ioVars, spc, live, extVars, procVars, stdin, supVars, idVars,
                   pending, preq, vmVars, pc, callVars>>

\* start() on a thread of its own: if self._process is not None: return
StartCall(s) ==
    /\ spc[s] = "idle"
    /\ spc' = [spc EXCEPT ![s] = IF process # None THEN "done" ELSE "st_popen"]
    /\ UNCHANGED <<ioVars, live, readers, extVars, procVars, stdin, supVars, idVars,
                   pending, preq, vmVars, reader_pc, pc, callVars>>

\* start(): self._process = subprocess.Popen(cmd, stdin=PIPE, stdout=PIPE, ...)
StartPopen(s) ==
    /\ spc[s] = "st_popen"
    /\ process' = "proc"
    /\ procExited' = FALSE
    /\ stdinOpen' = TRUE
    /\ stdoutClosed' = FALSE
    /\ live' = live + 1
    /\ spc' = [spc EXCEPT ![s] = "st_thread"]
    /\ UNCHANGED <<ioVars, readers, extVars, stdin, supVars, idVars, pending, preq,
                   vmVars, reader_pc, pc, callVars>>

\* start(): self._reader_thread = Thread(target=self._reader_loop); start()
StartThread(s) ==
    /\ spc[s] = "st_thread"
    /\ readers' = readers + 1
    /\ reader_pc' = "read"
    /\ spc' = [spc EXCEPT ![s] = "done"]
    /\ UNCHANGED <<ioVars, live, extVars, procVars, stdin, supVars, idVars, pending,
                   preq, vmVars, pc, callVars>>

\* ------------------------------------------------------- the supervisor
\* the supervisor answers a line it has received, with a result or an error
SupRespond ==
    /\ Cardinality(sent) < MaxResp
    /\ process # None /\ ~procExited /\ ~stdoutClosed
    /\ \E k \in 1..Len(stdin), kind \in {"result", "error"} :
         /\ stdin[k].id \notin Answered
         /\ LET msg == [id |-> stdin[k].id, kind |-> kind,
                        val |-> Payload(stdin[k].id)] IN
              /\ stdout' = Append(stdout, msg)
              /\ sent' = sent \cup {msg}
    /\ UNCHANGED <<ioVars, startVars, extVars, procVars, stdin, idVars, pending, preq,
                   vmVars, reader_pc, pc, callVars>>

\* the supervisor closes its stdout while still running
SupCloseStdout ==
    /\ process # None /\ ~procExited /\ ~stdoutClosed
    /\ stdoutClosed' = TRUE
    /\ UNCHANGED <<ioVars, startVars, extVars, process, procExited, stdinOpen, stdin,
                   supVars, idVars, pending, preq, vmVars, reader_pc, pc,
                   callVars>>

\* the supervisor process exits by itself
SupExit ==
    /\ process # None /\ ~procExited
    /\ procExited' = TRUE
    /\ stdoutClosed' = TRUE
    /\ live' = live - 1
    /\ UNCHANGED <<ioVars, spc, readers, extVars, process, stdinOpen, stdin, supVars,
                   idVars, pending, preq, vmVars, reader_pc, pc, callVars>>

\* the file events the supervisor reports: params.file.op and params.file.path
FileEvents == {[op |-> "write", path |-> "/w/f"]}

\* the supervisor emits an `event` notification for a file operation
SupEvent ==
    /\ events < MaxEvents
    /\ process # None /\ ~procExited /\ ~stdoutClosed
    /\ \E f \in FileEvents :
         stdout' = Append(stdout, [id |-> 0, kind |-> "event", val |-> 0,
                                   file |-> f])
    /\ events' = events + 1
    /\ UNCHANGED <<ioVars, startVars, compVars, hook_active, hthreads, began, delivered, rm_runs,
                   procVars, stdin, sent, idVars, pending, preq, vmVars,
                   reader_pc, pc, callVars>>

\* ------------------------------------------------- the event dispatcher
\* fnmatch.fnmatch(path, pattern) on the paths and patterns above
FnMatch(path, pattern) == pattern = "/w/*" /\ path = "/w/f"

\* the filter of _handle_vfs_file_event: ops and path, empty meaning all
Matches(h, f) ==
    /\ h.ops = {} \/ f.op \in h.ops
    /\ h.path = "" \/ FnMatch(f.path, h.path)

\* a background thread started by the dispatcher for the hooks hs; by and
\* depth say who called the dispatcher (the reader, or a callback running at
\* depth - 1), fired whether the running callback has delivered its own event
HookThread(k, hs) ==
    [kind |-> k, hooks |-> hs, st |-> "spawned", at |-> 1, by |-> "reader",
     depth |-> 0, fired |-> FALSE, run |-> 0]

\* (mutation) the guard also holds back the dangerous hooks
DispatchAllGuarded(hs, active, f) ==
    LET matching == SelectSeq(hs, LAMBDA h : Matches(h, f)) IN
    IF active THEN <<>>
    ELSE [k \in DOMAIN matching |->
             IF matching[k].dangerous
             THEN HookThread("dangerous", <<matching[k]>>)
             ELSE HookThread("safe", <<matching[k]>>)]

\* _handle_vfs_file_event: the threads started for the event f, given the
\* snapshot (hs, active) taken under _vfs_hook_lock: one per matching
\* dangerous hook, and one for the matching safe hooks unless active is set
Dispatch(hs, active, f) ==
    LET matching == SelectSeq(hs, LAMBDA h : Matches(h, f))
        dangerous == SelectSeq(matching, LAMBDA h : h.dangerous)
        safe == SelectSeq(matching, LAMBDA h : ~h.dangerous)
    IN [k \in DOMAIN dangerous |-> HookThread("dangerous", <<dangerous[k]>>)]
       \o (IF safe # <<>> /\ ~active THEN <<HookThread("safe", safe)>> ELSE <<>>)

\* the hooks of the snapshot hs that the event f matches and that are dangerous
MatchingDangerous(hs, f) ==
    SelectSeq(hs, LAMBDA h : Matches(h, f) /\ h.dangerous)

\* what the history keeps of one call of _handle_vfs_file_event: the caller,
\* the snapshot of _vfs_hook_active, and the matching dangerous and safe hooks
Delivery(who, hs, active, f) ==
    [by |-> who, active |-> active,
     dangerous |-> Len(MatchingDangerous(hs, f)),
     safe |-> Len(SelectSeq(hs, LAMBDA h : Matches(h, f) /\ ~h.dangerous))]

\* the threads ts, started by a callback of kind who running at depth d - 1
StartedBy(ts, who, d) ==
    [k \in DOMAIN ts |-> [ts[k] EXCEPT !.by = who, !.depth = d]]

\* hthreads without its i-th thread
Without(i) == [k \in 1..(Len(hthreads) - 1) |->
                  IF k < i THEN hthreads[k] ELSE hthreads[k + 1]]

\* close() has returned to its caller
CloseReturned == \E t \in Threads : op[t] = "close" /\ pc[t] = "done"

\* _run_vfs_safe_hooks_for_event: with the lock, return if _vfs_hook_active,
\* else set it
SafeEnter(i) ==
    /\ hthreads[i].kind = "safe" /\ hthreads[i].st = "spawned"
    /\ IF hook_active
       THEN /\ hthreads' = Without(i)
            /\ hook_active' = hook_active
       ELSE /\ hthreads' = [hthreads EXCEPT ![i].st = "ready"]
            /\ hook_active' = TRUE
    /\ UNCHANGED <<ioVars, startVars, compVars, began, delivered, events, rm_runs, procVars,
                   stdin, supVars, idVars, pending, preq, vmVars, reader_pc,
                   pc, callVars>>

\* _run_single_vfs_hook: hook.hook(self, event) or hook.hook(event) is called
HookBegin(i) ==
    /\ \/ hthreads[i].kind = "dangerous" /\ hthreads[i].st = "spawned"
       \/ hthreads[i].kind = "safe" /\ hthreads[i].st = "ready"
    /\ began' = Append(began, [dangerous |-> hthreads[i].kind = "dangerous",
                               afterClose |-> CloseReturned,
                               by |-> hthreads[i].by, raised |-> FALSE])
    /\ hthreads' = [hthreads EXCEPT ![i].st = "running", ![i].fired = FALSE,
                                    ![i].run = Len(began) + 1]
    /\ UNCHANGED <<ioVars, startVars, compVars, hook_active, events, delivered, rm_runs,
                   procVars,
                   stdin, supVars, idVars, pending, preq, vmVars, reader_pc,
                   pc, callVars>>

\* a running callback hands an event to the dispatcher itself, on its own
\* thread (client._handle_event_notification(...) called inside the callback, as
\* the callbacks of TestVFSCallbackNotifications do), at most once per run
HookNested(i) ==
    /\ hthreads[i].st = "running" /\ ~hthreads[i].fired
    /\ hthreads[i].depth < MaxDepth
    /\ \E f \in FileEvents :
         /\ hthreads' = [hthreads EXCEPT ![i].fired = TRUE]
                \o StartedBy(Dispatch(hooks.ev, hook_active, f),
                             hthreads[i].kind, hthreads[i].depth + 1)
         /\ delivered' = Append(delivered, Delivery(hthreads[i].kind, hooks.ev,
                                                    hook_active, f))
    /\ UNCHANGED <<ioVars, startVars, compVars, hook_active, began, events, rm_runs,
                   procVars, stdin, supVars, idVars, pending, preq, vmVars,
                   reader_pc, pc, callVars>>

\* the callback returns or raises (except Exception: pass); a dangerous
\* thread ends, a safe batch goes on to its next hook or to its finally block
HookEnd(i) ==
    /\ hthreads[i].st = "running"
    /\ hthreads' =
         IF hthreads[i].kind = "dangerous" THEN Without(i)
         ELSE IF hthreads[i].at < Len(hthreads[i].hooks)
         THEN [hthreads EXCEPT ![i].st = "ready", ![i].at = @ + 1]
         ELSE [hthreads EXCEPT ![i].st = "exit"]
    /\ UNCHANGED <<ioVars, startVars, compVars, hook_active, began, delivered, events, rm_runs,
                   procVars, stdin, supVars, idVars, pending, preq, vmVars,
                   reader_pc, pc, callVars>>

\* (mutation) the exception of a callback leaves _run_single_vfs_hook: the
\* thread of a dangerous hook dies, a safe batch goes to its finally block
AfterRaisePropagates(i) ==
    IF hthreads[i].kind = "dangerous" THEN Without(i)
    ELSE [hthreads EXCEPT ![i].st = "exit"]

\* _run_single_vfs_hook, except Exception: pass; the thread goes on as after
\* a return of the callback
AfterRaise(i) ==
    IF hthreads[i].kind = "dangerous" THEN Without(i)
    ELSE IF hthreads[i].at < Len(hthreads[i].hooks)
    THEN [hthreads EXCEPT ![i].st = "ready", ![i].at = @ + 1]
    ELSE [hthreads EXCEPT ![i].st = "exit"]

\* the callback raises an Exception
HookRaise(i) ==
    /\ hthreads[i].st = "running"
    /\ began' = [began EXCEPT ![hthreads[i].run].raised = TRUE]
    /\ hthreads' = AfterRaise(i)
    /\ UNCHANGED <<ioVars, startVars, compVars, hook_active, delivered, events,
                   rm_runs, procVars, stdin, supVars, idVars, pending, preq,
                   vmVars, reader_pc, pc, callVars>>

\* _run_vfs_safe_hooks_for_event, finally: with the lock, clear _vfs_hook_active
SafeExit(i) ==
    /\ hthreads[i].st = "exit"
    /\ hook_active' = FALSE
    /\ hthreads' = Without(i)
    /\ UNCHANGED <<ioVars, startVars, compVars, began, delivered, events, rm_runs, procVars,
                   stdin, supVars, idVars, pending, preq, vmVars, reader_pc,
                   pc, callVars>>

\* ------------------------------------------------------- _reader_loop
\* line = stdout.readline(); pending = self._pending.get(msg.get("id"));
\* if pending is None: continue; else set error or result, pending.event.set()
ReaderRead ==
    /\ reader_pc = "read"
    /\ stdout # <<>>
    /\ Head(stdout).kind \notin StreamKinds
    /\ LET msg == Head(stdout)
           found == Lookup(pending, msg.id) IN
         /\ stdout' = Tail(stdout)
         /\ IF msg.kind = "event"
            THEN /\ hthreads' = hthreads \o Dispatch(hooks.ev, hook_active, msg.file)
                 /\ delivered' = Append(delivered, Delivery("reader", hooks.ev,
                                                            hook_active, msg.file))
                 /\ preq' = preq
            ELSE /\ preq' = IF found = 0 THEN preq
                            ELSE [preq EXCEPT ![found] = Deliver(@, msg)]
                 /\ UNCHANGED <<hthreads, delivered>>
    /\ UNCHANGED <<ioVars, startVars, compVars, hook_active, began, events, rm_runs,
                   procVars, stdin, sent, idVars, pending, vmVars, reader_pc,
                   pc, callVars>>

\* if not line: fail every pending request, clear the table, return
ReaderEOF ==
    /\ reader_pc = "read"
    /\ stdout = <<>>
    /\ stdoutClosed
    /\ preq' = FailAll(preq, pending)
    /\ pending' = {}
    /\ reader_pc' = "done"
    /\ readers' = readers - 1
    /\ UNCHANGED <<ioVars, spc, live, extVars, procVars, stdin, supVars, idVars,
                   vmVars, pc, callVars>>

\* ------------------------------------------------------- _send_request
\* (mutation) the id is allocated before the process is checked
SendEnterEager(t, o, withTimeout) ==
    LET i == NextId(request_id) IN
    /\ op' = [op EXCEPT ![t] = o]
    /\ tmo' = [tmo EXCEPT ![t] = withTimeout]
    /\ request_id' = i
    /\ issued' = Append(issued, i)
    /\ rid' = [rid EXCEPT ![t] = i]
    /\ preq' = [preq EXCEPT ![i] = NewPending]
    /\ IF NotRunning
       THEN /\ out' = [out EXCEPT ![t] = Outcome("not_running", 0)]
            /\ pc' = [pc EXCEPT ![t] = AfterSend(o, "not_running")]
       ELSE /\ pc' = [pc EXCEPT ![t] = "sr_reg"]
            /\ out' = out
    /\ UNCHANGED <<ioVars, startVars, extVars, procVars, stdin, supVars, pending,
                   vmVars, reader_pc, cid, ccfg>>

\* if self._process is None or self._process.poll() is not None: raise;
\* req_id = self._next_id(); pending = _PendingRequest(...)
SendEnter(t, o, withTimeout) ==
    /\ op' = [op EXCEPT ![t] = o]
    /\ tmo' = [tmo EXCEPT ![t] = withTimeout]
    /\ IF NotRunning
       THEN /\ out' = [out EXCEPT ![t] = Outcome("not_running", 0)]
            /\ pc' = [pc EXCEPT ![t] = AfterSend(o, "not_running")]
            /\ UNCHANGED <<idVars, rid, preq>>
       ELSE LET i == NextId(request_id) IN
            /\ request_id' = i
            /\ issued' = Append(issued, i)
            /\ rid' = [rid EXCEPT ![t] = i]
            /\ preq' = [preq EXCEPT ![i] = NewPending]
            /\ pc' = [pc EXCEPT ![t] = "sr_reg"]
            /\ out' = out
    /\ UNCHANGED <<ioVars, startVars, extVars, procVars, stdin, supVars, pending,
                   vmVars, reader_pc, cid, ccfg>>

\* a caller enters exec / exec_stream / write_file / read_file / list_files,
\* which go straight to _send_request, with or without a timeout
RequestCall(t) ==
    /\ MayEnter(t)
    /\ \E withTimeout \in BOOLEAN : SendEnter(t, "request", withTimeout)

\* create() and close() reach _send_request after their own first statements
SrEnter(t) ==
    /\ pc[t] = "sr_enter"
    /\ SendEnter(t, op[t], tmo[t])

\* with self._pending_lock: self._pending[req_id] = pending
SrRegister(t) ==
    /\ pc[t] = "sr_reg"
    /\ pending' = Register(pending, rid[t])
    /\ pc' = [pc EXCEPT ![t] = "sr_write"]
    /\ UNCHANGED <<ioVars, startVars, extVars, procVars, stdin, supVars, idVars, preq,
                   vmVars, reader_pc, callVars>>

\* create(): if wire_vfs is not None: vfs["interception"] = wire_vfs.to_dict();
\* write_file: {"path": path, "content": base64.b64encode(content), ...};
\* read_file and list_files: {"path": path}
WireParams(t) ==
    CASE op[t] = "create" -> ccfg[t].res.wire
      [] op[t] = "write_file" ->
            [path |-> fcall[t].path, content |-> B64Encode(fcall[t].body)]
      [] op[t] \in {"read_file", "list_files"} -> [path |-> fcall[t].path]
      [] OTHER -> NoWire

\* with self._write_lock: stdin.write(data); stdin.flush()
SrWrite(t) ==
    /\ pc[t] = "sr_write"
    /\ IF WriteOK
       THEN /\ stdin' = Append(stdin, RequestLine(MethodOf(op[t]), rid[t],
                                                  WireParams(t)))
            /\ pc' = [pc EXCEPT ![t] = "sr_wait"]
            /\ out' = out
       ELSE /\ stdin' = stdin
            /\ out' = [out EXCEPT ![t] = Outcome("write_failed", 0)]
            /\ pc' = [pc EXCEPT ![t] = "sr_pop"]
    /\ UNCHANGED <<ioVars, startVars, extVars, procVars, supVars, idVars, pending,
                   preq, vmVars, reader_pc, op, tmo, rid, cid, ccfg>>

\* pending.event.wait() returned True: raise pending.error or return pending.result
SrWaitDone(t) ==
    /\ pc[t] = "sr_wait"
    /\ preq[rid[t]].event
    /\ out' = [out EXCEPT ![t] = Completed(preq[rid[t]])]
    /\ pc' = [pc EXCEPT ![t] = "sr_pop"]
    /\ UNCHANGED <<ioVars, startVars, extVars, procVars, stdin, supVars, idVars,
                   pending, preq, vmVars, reader_pc, op, tmo, rid, cid, ccfg>>

\* pending.event.wait(timeout) returned False
SrWaitTimeout(t) ==
    /\ pc[t] = "sr_wait"
    /\ tmo[t]
    /\ ~preq[rid[t]].event
    /\ pc' = [pc EXCEPT ![t] = "sr_cancel"]
    /\ UNCHANGED <<ioVars, startVars, extVars, procVars, stdin, supVars, idVars,
                   pending, preq, vmVars, reader_pc, callVars>>

\* _send_cancel: cancel_id = self._next_id()
SrCancelAlloc(t) ==
    /\ pc[t] = "sr_cancel"
    /\ LET i == NextId(request_id) IN
         /\ request_id' = i
         /\ issued' = Append(issued, i)
         /\ cid' = [cid EXCEPT ![t] = i]
    /\ pc' = [pc EXCEPT ![t] = "sr_cancel_write"]
    /\ UNCHANGED <<ioVars, startVars, extVars, procVars, stdin, supVars, pending, preq,
                   vmVars, reader_pc, op, tmo, rid, out, ccfg>>

\* _send_cancel: write under the write lock, except Exception: pass;
\* then raise TimeoutError
SrCancelWrite(t) ==
    /\ pc[t] = "sr_cancel_write"
    /\ stdin' = IF WriteOK THEN Append(stdin, CancelLine(cid[t], rid[t]))
                ELSE stdin
    /\ out' = [out EXCEPT ![t] = TimedOutOutcome(preq[rid[t]])]
    /\ pc' = [pc EXCEPT ![t] = "sr_pop"]
    /\ UNCHANGED <<ioVars, startVars, extVars, procVars, supVars, idVars, pending,
                   preq, vmVars, reader_pc, op, tmo, rid, cid, ccfg>>

\* finally: with self._pending_lock: self._pending.pop(req_id, None)
SrPop(t) ==
    /\ pc[t] = "sr_pop"
    /\ pending' = Pop(pending, rid[t])
    /\ pc' = [pc EXCEPT ![t] = AfterSend(op[t], out[t].kind)]
    /\ UNCHANGED <<ioVars, startVars, extVars, procVars, stdin, supVars, idVars, preq,
                   vmVars, reader_pc, callVars>>

\* ------------------------------------- write_file, read_file, list_files
\* the op the file calls pass to _apply_local_action_hooks
VfsOp(o) == CASE o = "write_file" -> "write"
              [] o = "read_file" -> "read"
              [] OTHER -> "readdir"

\* what an action hook may return, and what a mutate hook may return
\* in place of a returned value: the hook raises
HookRaises == "<raise>"
Raises == [t |-> "raise", v |-> <<>>]
ActionDecisions == {"allow", "", " Block ", "deny", HookRaises}
MutateReturns == {NoValue, Bytes(<<98, 98>>), Str(<<233, 97>>), OtherValue,
                  Raises}

\* decision = str(hook.hook(req)).strip().lower()
NormDecision(d) == Lower(Strip(d))

\* (mutation) a blocking hook does not end the loop
RECURSIVE ActionLoopGoesOn(_, _, _, _, _)
ActionLoopGoesOn(hs, k, o, path, dec) ==
    IF k > Len(hs) THEN [outcome |-> "pass", invoked |-> <<>>]
    ELSE IF ~Matches(hs[k], [op |-> o, path |-> path])
    THEN ActionLoopGoesOn(hs, k + 1, o, path, dec)
    ELSE LET call == [hook |-> k, returned |-> dec[k]]
             rest == ActionLoopGoesOn(hs, k + 1, o, path, dec)
         IN [outcome |-> IF NormDecision(dec[k]) = "block" THEN "hook_blocked"
                         ELSE rest.outcome,
             invoked |-> <<call>> \o rest.invoked]

\* (mutation) only a block ends the loop: any other decision, and a hook
\* that raises, counts as allow
RECURSIVE ActionLoopLenient(_, _, _, _, _)
ActionLoopLenient(hs, k, o, path, dec) ==
    IF k > Len(hs) THEN [outcome |-> "pass", invoked |-> <<>>]
    ELSE IF ~Matches(hs[k], [op |-> o, path |-> path])
    THEN ActionLoopLenient(hs, k + 1, o, path, dec)
    ELSE LET call == [hook |-> k, returned |-> dec[k]] IN
         IF NormDecision(dec[k]) # "block"
         THEN LET rest == ActionLoopLenient(hs, k + 1, o, path, dec) IN
              [rest EXCEPT !.invoked = <<call>> \o @]
         ELSE [outcome |-> "hook_blocked", invoked |-> <<call>>]

\* _apply_local_action_hooks, the loop from the k-th hook of the snapshot hs
\* on, dec[j] being what the j-th hook returns when invoked (or that it
\* raises): how the loop ends (pass, the MatchlockError raised, or the hook's
\* own exception) and the hooks it invoked
RECURSIVE ActionLoop(_, _, _, _, _)
ActionLoop(hs, k, o, path, dec) ==
    IF k > Len(hs) THEN [outcome |-> "pass", invoked |-> <<>>]
    ELSE IF ~Matches(hs[k], [op |-> o, path |-> path])
    THEN ActionLoop(hs, k + 1, o, path, dec)
    ELSE LET call == [hook |-> k, returned |-> dec[k]] IN
         IF dec[k] = HookRaises
         THEN [outcome |-> "hook_raised", invoked |-> <<call>>]
         ELSE IF NormDecision(dec[k]) \in {"", VFS_HOOK_ACTION_ALLOW}
         THEN LET rest == ActionLoop(hs, k + 1, o, path, dec) IN
              [rest EXCEPT !.invoked = <<call>> \o @]
         ELSE [outcome |-> IF NormDecision(dec[k]) = "block" THEN "hook_blocked"
                           ELSE "hook_invalid",
               invoked |-> <<call>>]

\* (mutation) every hook is given the original content
RECURSIVE MutateLoopUnthreaded(_, _, _, _, _)
MutateLoopUnthreaded(hs, k, path, cur, ret) ==
    IF k > Len(hs) THEN [outcome |-> "pass", body |-> cur, invoked |-> <<>>]
    ELSE IF ~Matches(hs[k], [op |-> "write", path |-> path])
    THEN MutateLoopUnthreaded(hs, k + 1, path, cur, ret)
    ELSE LET call == [hook |-> k, size |-> Len(cur), returned |-> ret[k]]
             rest == MutateLoopUnthreaded(hs, k + 1, path, cur, ret)
             mine == IF ret[k].t = "str" THEN Utf8Encode(ret[k].v) ELSE ret[k].v
         IN IF ret[k].t \notin {"none", "str", "bytes"}
            THEN [outcome |-> "mutate_invalid", body |-> cur, invoked |-> <<call>>]
            ELSE [outcome |-> rest.outcome,
                  body |-> IF rest.invoked = <<>> /\ ret[k].t # "none"
                           THEN mine ELSE rest.body,
                  invoked |-> <<call>> \o rest.invoked]

\* _apply_local_write_mutations, the loop from the k-th hook of the snapshot
\* hs on, cur being the content so far and ret[j] what the j-th hook returns
\* when invoked: how the loop ends, the content, and the hooks it invoked
\* with the size each was given
RECURSIVE MutateLoop(_, _, _, _, _)
MutateLoop(hs, k, path, cur, ret) ==
    IF k > Len(hs) THEN [outcome |-> "pass", body |-> cur, invoked |-> <<>>]
    ELSE IF ~Matches(hs[k], [op |-> "write", path |-> path])
    THEN MutateLoop(hs, k + 1, path, cur, ret)
    ELSE LET call == [hook |-> k, size |-> Len(cur), returned |-> ret[k]]
             next == CASE ret[k].t = "none" -> cur
                       [] ret[k].t = "str" -> Utf8Encode(ret[k].v)
                       [] OTHER -> ret[k].v
         IN IF ret[k].t = "raise"
            THEN [outcome |-> "hook_raised", body |-> cur, invoked |-> <<call>>]
            ELSE IF ret[k].t \notin {"none", "str", "bytes"}
            THEN [outcome |-> "mutate_invalid", body |-> cur, invoked |-> <<call>>]
            ELSE LET rest == MutateLoop(hs, k + 1, path, next, ret) IN
                 [rest EXCEPT !.invoked = <<call>> \o @]

\* the calls that have returned or raised
ReturnedCalls == {u \in Threads : pc[u] = "done"}

\* write_file / read_file / list_files: content.encode("utf-8") for a str;
\* _apply_local_action_hooks(op, path, ...), which raises or returns
FileCallWith(t, contents) ==
    /\ MayEnter(t)
    /\ \E o \in {"write_file", "read_file", "list_files"}, path \in FilePaths,
          c \in contents \cup {NoValue},
          dec \in [DOMAIN hooks.act -> ActionDecisions] :
         /\ (c = NoValue) = (o # "write_file")
         /\ LET res == ActionLoop(hooks.act, 1, VfsOp(o), path, dec) IN
              /\ op' = [op EXCEPT ![t] = o]
              /\ fcall' = [fcall EXCEPT ![t] =
                    [path |-> path, content |-> c, acts |-> res.invoked,
                     muts |-> <<>>,
                     body |-> IF c.t = "str" THEN Utf8Encode(c.v) ELSE c.v,
                     prior |-> ReturnedCalls]]
              /\ IF res.outcome # "pass"
                 THEN /\ out' = [out EXCEPT ![t] = Outcome(res.outcome, 0)]
                      /\ pc' = [pc EXCEPT ![t] = "done"]
                 ELSE /\ out' = out
                      /\ pc' = [pc EXCEPT ![t] =
                            IF o = "write_file" THEN "fw_mutate" ELSE "sr_enter"]
    /\ UNCHANGED <<startVars, extVars, procVars, stdin, supVars, idVars,
                   pending, preq, vmVars, reader_pc, tmo, rid, cid, ccfg,
                   sinks, files, notif, lockVars>>

\* a file call with any of the contents, and with one of the short ones
FileCall(t) == FileCallWith(t, ContentInputs)
FileCallShort(t) == FileCallWith(t, ShortContents)

\* write_file: content = self._apply_local_write_mutations(path, content, mode)
FwMutate(t) ==
    /\ pc[t] = "fw_mutate"
    /\ \E ret \in [DOMAIN hooks.mut -> MutateReturns] :
         LET res == MutateLoop(hooks.mut, 1, fcall[t].path, fcall[t].body, ret)
         IN /\ fcall' = [fcall EXCEPT ![t].muts = res.invoked,
                                      ![t].body = res.body]
            /\ IF res.outcome # "pass"
               THEN /\ out' = [out EXCEPT ![t] = Outcome(res.outcome, 0)]
                    /\ pc' = [pc EXCEPT ![t] = "done"]
               ELSE /\ out' = out
                    /\ pc' = [pc EXCEPT ![t] = "sr_enter"]
    /\ UNCHANGED <<startVars, extVars, procVars, stdin, supVars, idVars,
                   pending, preq, vmVars, reader_pc, op, tmo, rid, cid, ccfg,
                   sinks, files, notif, lockVars>>

\* read_file: return base64.b64decode(result["content"])
ReadFileReturn(t) == B64Decode(preq[rid[t]].data)

\* the supervisor serves a file request it has received: write_file stores
\* the content under the path, read_file returns what is stored there (an
\* error when nothing is), list_files returns a listing; data is the
\* result's "content"
SupFile ==
    /\ process # None /\ ~procExited /\ ~stdoutClosed
    /\ \E k \in 1..Len(stdin) :
         LET line == stdin[k]
             miss == line.method = "read_file" /\ ~files[line.wire.path].stored
             msg == [id |-> line.id,
                     kind |-> IF miss THEN "error" ELSE "result",
                     val |-> Payload(line.id),
                     data |-> IF line.method = "read_file" /\ ~miss
                              THEN files[line.wire.path].data ELSE <<>>]
         IN /\ line.id \notin Answered
            /\ line.method \in {"write_file", "read_file", "list_files"}
            /\ files' = IF line.method = "write_file"
                        THEN [files EXCEPT ![line.wire.path] =
                                [stored |-> TRUE, data |-> line.wire.content]]
                        ELSE files
            /\ stdout' = Append(stdout, msg)
            /\ sent' = sent \cup {msg}
    /\ UNCHANGED <<startVars, extVars, procVars, stdin, idVars, pending, preq,
                   vmVars, reader_pc, pc, callVars, fcall, sinks, notif, lockVars>>

\* ------------------------------------------------- exec_stream
IsStream(m) == m.kind \in StreamKinds
\* the stream notifications emitted so far
Streamed ==
    Len(SelectSeq(stdout, IsStream)) + Len(notif.seen)
        + (IF notif.cur.held THEN 1 ELSE 0)

\* the supervisor emits a stream notification for a request it has received
\* and not yet answered
SupStreamOf(chunks) ==
    /\ Streamed < MaxChunks
    /\ process # None /\ ~procExited /\ ~stdoutClosed
    /\ \E k \in 1..Len(stdin), c \in chunks :
         /\ stdin[k].method \in {"exec", "exec_stream"}
         /\ stdin[k].id \notin Answered
         /\ stdout' = Append(stdout, [id |-> 0, kind |-> c.kind, val |-> 0,
                                      target |-> stdin[k].id, data |-> c.data])
    /\ UNCHANGED <<startVars, extVars, procVars, stdin, sent, idVars, pending,
                   preq, vmVars, reader_pc, pc, callVars, ioVars>>

\* the supervisor streams any of the chunks, and only the plain ones
SupStream == SupStreamOf(Chunks)
SupStreamPlain == SupStreamOf(PlainChunks)

\* pending.on_notification of the entry registered under id i: the thread
\* whose exec_stream call made the entry, 0 when the entry has no callback
CallbackOwner(i) ==
    IF \E t \in Threads : rid[t] = i /\ op[t] = "exec_stream"
    THEN CHOOSE t \in Threads : rid[t] = i /\ op[t] = "exec_stream"
    ELSE 0

\* (mutation) a chunk is put in front of what the sink holds
OnNotificationNewestFirst(s, kind, data, returned) ==
    LET d == B64Decode(data) IN
    IF ~d.ok THEN s
    ELSE IF kind = "stdout" /\ s.has_out
    THEN [s EXCEPT !.out = Utf8Decode(d.v) \o @, !.late = @ \/ returned]
    ELSE IF kind = "stderr" /\ s.has_err
    THEN [s EXCEPT !.err = Utf8Decode(d.v) \o @, !.late = @ \/ returned]
    ELSE s

\* exec_stream's on_notification: decode the data (return when that raises)
\* and write it to the sink of the method when one was given; returned tells
\* whether the call had already returned or raised
OnNotification(s, kind, data, returned) ==
    LET d == B64Decode(data) IN
    IF ~d.ok THEN s
    ELSE IF kind = "stdout" /\ s.has_out
    THEN [s EXCEPT !.out = @ \o Utf8Decode(d.v), !.late = @ \/ returned]
    ELSE IF kind = "stderr" /\ s.has_err
    THEN [s EXCEPT !.err = @ \o Utf8Decode(d.v), !.late = @ \/ returned]
    ELSE s

\* _handle_notification for exec_stream.stdout / exec_stream.stderr:
\* with self._pending_lock: pending = self._pending.get(req_id); return when
\* there is no entry or the entry has no on_notification
ReaderNotify ==
    /\ reader_pc = "read"
    /\ stdout # <<>>
    /\ Head(stdout).kind \in StreamKinds
    /\ LET msg == Head(stdout)
           found == Lookup(pending, msg.target)
           n == [held |-> TRUE, kind |-> msg.kind, target |-> msg.target,
                 data |-> msg.data,
                 to |-> IF found = 0 THEN 0 ELSE CallbackOwner(found)]
       IN /\ stdout' = Tail(stdout)
          /\ IF n.to = 0
             THEN /\ notif' = [notif EXCEPT !.seen = Append(@, n)]
                  /\ reader_pc' = reader_pc
             ELSE /\ notif' = [notif EXCEPT !.cur = n]
                  /\ reader_pc' = "notify"
    /\ UNCHANGED <<startVars, extVars, procVars, stdin, sent, idVars, pending,
                   preq, vmVars, pc, callVars, fcall, sinks, files, lockVars>>

\* _handle_notification: pending.on_notification(method, params), outside
\* the lock
ReaderCallback ==
    /\ reader_pc = "notify"
    /\ LET n == notif.cur IN
         /\ sinks' = [sinks EXCEPT ![n.to] =
                          OnNotification(@, n.kind, n.data, pc[n.to] = "done")]
         /\ notif' = [cur |-> NoNotification, seen |-> Append(notif.seen, n)]
    /\ reader_pc' = "read"
    /\ UNCHANGED <<startVars, extVars, procVars, stdin, supVars, idVars,
                   pending, preq, vmVars, pc, callVars, fcall, files, lockVars>>

\* on_notification reaches the write to a sink: the data decodes and a sink
\* was given for the method
WritesSink(s, kind, data) ==
    /\ B64Decode(data).ok
    /\ \/ kind = "stdout" /\ s.has_out
       \/ kind = "stderr" /\ s.has_err

\* the sink's write or flush raises: the exception leaves on_notification,
\* _handle_notification and _reader_loop, none of which catches it, and the
\* reader thread ends without touching the pending table
ReaderCallbackRaise ==
    /\ reader_pc = "notify"
    /\ WritesSink(sinks[notif.cur.to], notif.cur.kind, notif.cur.data)
    /\ notif' = [cur |-> NoNotification, seen |-> Append(notif.seen, notif.cur)]
    /\ reader_pc' = "done"
    /\ readers' = readers - 1
    /\ UNCHANGED <<compVars, dispVars, rm_runs, spc, live, procVars, stdin,
                   supVars, idVars, pending, preq, vmVars, pc, callVars, fcall,
                   sinks, files, lockVars>>

\* exec_stream: build params and on_notification over the sinks given
StreamCallWith(t, inputs) ==
    /\ MayEnter(t)
    /\ \E given \in inputs :
         /\ op' = [op EXCEPT ![t] = "exec_stream"]
         /\ tmo' = [tmo EXCEPT ![t] = given[3]]
         /\ sinks' = [sinks EXCEPT ![t] =
                          [NoSinks EXCEPT !.has_out = given[1],
                                          !.has_err = given[2]]]
    /\ pc' = [pc EXCEPT ![t] = "sr_enter"]
    /\ UNCHANGED <<startVars, extVars, procVars, stdin, supVars, idVars,
                   pending, preq, vmVars, reader_pc, rid, cid, out, ccfg,
                   fcall, files, notif, lockVars>>

\* exec_stream without a timeout, and with both sinks
StreamCall(t) == StreamCallWith(t, StreamInputs)
StreamCallTimed(t) == StreamCallWith(t, TimedInputs)

\* ------------------------------------------------- the locks
\* the variables no step of the statement-level transport changes
quietVars ==
    <<compVars, rm_runs, procVars, vmVars, sinks, files, notif, spc, live,
      hook_active, began, events>>

\* the lock a thread needs at each `with` statement: _vfs_hook_lock in
\* _apply_local_action_hooks, _id_lock in _next_id (for the request and for
\* the cancel), _pending_lock to register and to pop, _write_lock to write
LockAt(at) ==
    CASE at = "lk_hook" -> "hook"
      [] at \in {"lk_id", "lk_cid"} -> "id"
      [] at \in {"lk_reg", "lk_pop", "lk_get", "lk_eof"} -> "pending"
      [] at = "lk_ev" -> "hook"
      [] OTHER -> "write"
AcquirePoints == {"lk_hook", "lk_id", "lk_cid", "lk_reg", "lk_pop", "lk_w", "lk_cw"}
ReaderAcquirePoints == {"lk_get", "lk_eof", "lk_ev"}
\* the position inside the `with` block entered at a position
Inside(at) ==
    CASE at = "lk_hook" -> "lk_hook_in"
      [] at = "lk_id" -> "lk_id_in"
      [] at = "lk_cid" -> "lk_cid_in"
      [] at = "lk_reg" -> "lk_reg_in"
      [] at = "lk_pop" -> "lk_pop_in"
      [] at = "lk_w" -> "lk_w_in"
      [] at = "lk_cw" -> "lk_cw_in"
      [] at = "lk_get" -> "lk_get_in"
      [] at = "lk_eof" -> "lk_eof_in"
      [] OTHER -> "lk_ev_in"

\* (mutation) a `with lock:` is entered whether or not the lock is held
CanAcquireAlways(ls, l) == TRUE

\* threading.Lock.acquire: the lock is free
CanAcquire(ls, l) == ls[l] = Free

\* (mutation) leaving the `with` block leaves the lock held
ReleaseKeep(ls, l) == ls

\* threading.Lock.release at the end of the `with` block
Release(ls, l) == [ls EXCEPT ![l] = Free]

\* the two pieces in which the text of the line with id i can reach the pipe
Pieces(i) == <<[id |-> i, part |-> "head"], [id |-> i, part |-> "tail"]>>

\* list_files(path, timeout): the call begins with _apply_local_action_hooks
LkCall(t) ==
    /\ MayEnter(t)
    /\ \E path \in {"/workspace"}, withTimeout \in BOOLEAN :
         /\ op' = [op EXCEPT ![t] = "list_files"]
         /\ tmo' = [tmo EXCEPT ![t] = withTimeout]
         /\ fcall' = [fcall EXCEPT ![t] = [NoFile EXCEPT !.path = path]]
    /\ pc' = [pc EXCEPT ![t] = "lk_hook"]
    /\ UNCHANGED <<quietVars, readers, hthreads, delivered, lockVars, stdin,
                   supVars, idVars, pending, preq, reader_pc, rid, cid, out,
                   ccfg>>

\* a caller enters a `with lock:` block
LkAcquire(t) ==
    /\ pc[t] \in AcquirePoints
    /\ CanAcquire(locks, LockAt(pc[t]))
    /\ locks' = [locks EXCEPT ![LockAt(pc[t])] = t]
    /\ pc' = [pc EXCEPT ![t] = Inside(pc[t])]
    /\ UNCHANGED <<quietVars, readers, hthreads, delivered, pipe, wbuf, rmsg,
                   stdin, supVars, idVars, pending, preq, reader_pc, callVars,
                   fcall>>

\* _apply_local_action_hooks: hooks = list(self._vfs_action_hooks) under the
\* lock, then the loop over the snapshot; _send_request: raise when the
\* process is not running
LkSnapshot(t) ==
    /\ pc[t] = "lk_hook_in"
    /\ locks' = Release(locks, "hook")
    /\ \E dec \in [DOMAIN hooks.act -> ActionDecisions] :
         LET res == ActionLoop(hooks.act, 1, VfsOp(op[t]), fcall[t].path, dec)
             why == IF res.outcome # "pass" THEN res.outcome
                    ELSE IF NotRunning THEN "not_running" ELSE "pass"
         IN /\ fcall' = [fcall EXCEPT ![t].acts = res.invoked]
            /\ IF why # "pass"
               THEN /\ out' = [out EXCEPT ![t] = Outcome(why, 0)]
                    /\ pc' = [pc EXCEPT ![t] = "done"]
               ELSE /\ out' = out
                    /\ pc' = [pc EXCEPT ![t] = "lk_id"]
    /\ UNCHANGED <<quietVars, readers, hthreads, delivered, pipe, wbuf, rmsg,
                   stdin, supVars, idVars, pending, preq, reader_pc, op, tmo,
                   rid, cid, ccfg>>

\* _next_id inside the lock: self._request_id += 1; return self._request_id;
\* for a request, pending = _PendingRequest(...)
LkNextId(t) ==
    /\ pc[t] \in {"lk_id_in", "lk_cid_in"}
    /\ locks' = Release(locks, "id")
    /\ LET i == NextId(request_id) IN
         /\ request_id' = i
         /\ issued' = Append(issued, i)
         /\ IF pc[t] = "lk_id_in"
            THEN /\ rid' = [rid EXCEPT ![t] = i]
                 /\ preq' = [preq EXCEPT ![i] = NewPending]
                 /\ cid' = cid
                 /\ pc' = [pc EXCEPT ![t] = "lk_reg"]
            ELSE /\ cid' = [cid EXCEPT ![t] = i]
                 /\ UNCHANGED <<rid, preq>>
                 /\ pc' = [pc EXCEPT ![t] = "lk_cw"]
    /\ UNCHANGED <<quietVars, readers, hthreads, delivered, pipe, wbuf, rmsg,
                   stdin, supVars, pending, reader_pc, op, tmo, out, ccfg,
                   fcall>>

\* with self._pending_lock: self._pending[req_id] = pending
LkRegister(t) ==
    /\ pc[t] = "lk_reg_in"
    /\ pending' = Register(pending, rid[t])
    /\ locks' = Release(locks, "pending")
    /\ pc' = [pc EXCEPT ![t] = "lk_w"]
    /\ UNCHANGED <<quietVars, readers, hthreads, delivered, pipe, wbuf, rmsg,
                   stdin, supVars, idVars, preq, reader_pc, callVars, fcall>>

\* stdin.write(data) inside the write lock: the line-buffered stream may
\* put the first piece of the text in the pipe before write returns
LkWrite(t) ==
    /\ pc[t] \in {"lk_w_in", "lk_cw_in"}
    /\ LET ps == Pieces(IF pc[t] = "lk_w_in" THEN rid[t] ELSE cid[t]) IN
       \E spill \in BOOLEAN :
         IF spill
         THEN /\ pipe' = Append(pipe, ps[1])
              /\ wbuf' = [wbuf EXCEPT ![t] = <<ps[2]>>]
         ELSE /\ pipe' = pipe
              /\ wbuf' = [wbuf EXCEPT ![t] = ps]
    /\ pc' = [pc EXCEPT ![t] = IF pc[t] = "lk_w_in" THEN "lk_flush"
                                ELSE "lk_cflush"]
    /\ UNCHANGED <<quietVars, readers, hthreads, delivered, locks, rmsg,
                   stdin, supVars, idVars, pending, preq, reader_pc, callVars,
                   fcall>>

\* stdin.flush() and the end of the write lock's block: the supervisor has
\* the line; after the cancel, _send_request raises TimeoutError
LkFlush(t) ==
    /\ pc[t] \in {"lk_flush", "lk_cflush"}
    /\ pipe' = pipe \o wbuf[t]
    /\ wbuf' = [wbuf EXCEPT ![t] = <<>>]
    /\ locks' = Release(locks, "write")
    /\ IF pc[t] = "lk_flush"
       THEN /\ stdin' = Append(stdin, RequestLine(MethodOf(op[t]), rid[t],
                                                  WireParams(t)))
            /\ out' = out
            /\ pc' = [pc EXCEPT ![t] = "lk_wait"]
       ELSE /\ stdin' = Append(stdin, CancelLine(cid[t], rid[t]))
            /\ out' = [out EXCEPT ![t] = TimedOutOutcome(preq[rid[t]])]
            /\ pc' = [pc EXCEPT ![t] = "lk_pop"]
    /\ UNCHANGED <<quietVars, readers, hthreads, delivered, rmsg, supVars,
                   idVars, pending, preq, reader_pc, op, tmo, rid, cid, ccfg,
                   fcall>>

\* pending.event.wait(timeout) returned True: raise pending.error or return
LkWaitDone(t) ==
    /\ pc[t] = "lk_wait"
    /\ preq[rid[t]].event
    /\ out' = [out EXCEPT ![t] = Completed(preq[rid[t]])]
    /\ pc' = [pc EXCEPT ![t] = "lk_pop"]
    /\ UNCHANGED <<quietVars, readers, hthreads, delivered, lockVars, stdin,
                   supVars, idVars, pending, preq, reader_pc, op, tmo, rid,
                   cid, ccfg, fcall>>

\* pending.event.wait(timeout) returned False: self._send_cancel(req_id)
LkWaitTimeout(t) ==
    /\ pc[t] = "lk_wait"
    /\ tmo[t]
    /\ ~preq[rid[t]].event
    /\ pc' = [pc EXCEPT ![t] = "lk_cid"]
    /\ UNCHANGED <<quietVars, readers, hthreads, delivered, lockVars, stdin,
                   supVars, idVars, pending, preq, reader_pc, callVars, fcall>>

\* finally: with self._pending_lock: self._pending.pop(req_id, None)
LkPop(t) ==
    /\ pc[t] = "lk_pop_in"
    /\ pending' = Pop(pending, rid[t])
    /\ locks' = Release(locks, "pending")
    /\ pc' = [pc EXCEPT ![t] = "done"]
    /\ UNCHANGED <<quietVars, readers, hthreads, delivered, pipe, wbuf, rmsg,
                   stdin, supVars, idVars, preq, reader_pc, callVars, fcall>>

\* _reader_loop: line = stdout.readline(); msg = json.loads(line)
LkReaderRead ==
    /\ reader_pc = "read"
    /\ stdout # <<>> \/ stdoutClosed
    /\ IF stdout # <<>>
       THEN /\ rmsg' = Head(stdout)
            /\ stdout' = Tail(stdout)
            /\ reader_pc' = IF Head(stdout).kind = "event" THEN "lk_ev"
                             ELSE "lk_get"
       ELSE /\ UNCHANGED <<rmsg, stdout>>
            /\ reader_pc' = "lk_eof"
    /\ UNCHANGED <<quietVars, readers, hthreads, delivered, locks, pipe, wbuf,
                   stdin, sent, idVars, pending, preq, pc, callVars, fcall>>

\* the reader enters a `with lock:` block
LkReaderAcquire ==
    /\ reader_pc \in ReaderAcquirePoints
    /\ CanAcquire(locks, LockAt(reader_pc))
    /\ locks' = [locks EXCEPT ![LockAt(reader_pc)] = ReaderId]
    /\ reader_pc' = Inside(reader_pc)
    /\ UNCHANGED <<quietVars, readers, hthreads, delivered, pipe, wbuf, rmsg,
                   stdin, supVars, idVars, pending, preq, pc, callVars, fcall>>

\* with self._pending_lock: pending = self._pending.get(msg_id);
\* if pending is None: continue
LkReaderGet ==
    /\ reader_pc = "lk_get_in"
    /\ locks' = Release(locks, "pending")
    /\ IF Lookup(pending, rmsg.id) = 0
       THEN /\ rmsg' = NoLine
            /\ reader_pc' = "read"
       ELSE /\ rmsg' = rmsg
            /\ reader_pc' = "lk_set"
    /\ UNCHANGED <<quietVars, readers, hthreads, delivered, pipe, wbuf,
                   stdin, supVars, idVars, pending, preq, pc, callVars, fcall>>

\* pending.error = ... or pending.result = ...; pending.event.set()
LkReaderSet ==
    /\ reader_pc = "lk_set"
    /\ preq' = [preq EXCEPT ![rmsg.id] = Deliver(@, rmsg)]
    /\ rmsg' = NoLine
    /\ reader_pc' = "read"
    /\ UNCHANGED <<quietVars, readers, hthreads, delivered, locks, pipe, wbuf,
                   stdin, supVars, idVars, pending, pc, callVars, fcall>>

\* at EOF, inside the pending lock: fail every entry, clear the table, return
LkReaderFail ==
    /\ reader_pc = "lk_eof_in"
    /\ preq' = FailAll(preq, pending)
    /\ pending' = {}
    /\ locks' = Release(locks, "pending")
    /\ reader_pc' = "done"
    /\ readers' = readers - 1
    /\ UNCHANGED <<quietVars, hthreads, delivered, pipe, wbuf, rmsg, stdin,
                   supVars, idVars, pc, callVars, fcall>>

\* _handle_vfs_file_event: the snapshot of the hooks and of the guard inside
\* the hook lock, then the threads for the matching hooks
LkReaderEvent ==
    /\ reader_pc = "lk_ev_in"
    /\ locks' = Release(locks, "hook")
    /\ hthreads' = hthreads \o Dispatch(hooks.ev, hook_active, rmsg.file)
    /\ delivered' = Append(delivered, Delivery("reader", hooks.ev, hook_active,
                                               rmsg.file))
    /\ rmsg' = NoLine
    /\ reader_pc' = "read"
    /\ UNCHANGED <<quietVars, readers, pipe, wbuf, stdin, supVars, idVars,
                   pending, preq, pc, callVars, fcall>>

\* ------------------------------------------------------------ create()
\* (mutation) the tables are cleared before the options are validated
CreateEnterClearFirst(t, o) ==
    LET c == CompileVfsHooks(o.vfs_interception) IN
    /\ op' = [op EXCEPT ![t] = "create"]
    /\ hooks' = SetLocalVfsHooks(hooks, NoHooks)
    /\ hook_active' = FALSE
    /\ IF o.image = "" \/ c.kind = "error"
       THEN /\ out' = [out EXCEPT ![t] = Outcome("config_error", 0)]
            /\ pc' = [pc EXCEPT ![t] = "done"]
            /\ ccfg' = [ccfg EXCEPT ![t] = [opts |-> o, res |-> NotCompiled]]
       ELSE /\ ccfg' = [ccfg EXCEPT ![t] = [opts |-> o, res |-> c]]
            /\ pc' = [pc EXCEPT ![t] = "sr_enter"]
            /\ out' = out

\* create(): if not opts.image: raise; compile the hooks (may raise);
\* _set_local_vfs_hooks([], [], []); build params
CreateEnter(t, o) ==
    LET c == CompileVfsHooks(o.vfs_interception) IN
    /\ op' = [op EXCEPT ![t] = "create"]
    /\ IF o.image = "" \/ c.kind = "error"
       THEN /\ out' = [out EXCEPT ![t] = Outcome("config_error", 0)]
            /\ pc' = [pc EXCEPT ![t] = "done"]
            /\ ccfg' = [ccfg EXCEPT ![t] = [opts |-> o, res |-> NotCompiled]]
            /\ UNCHANGED <<hooks, hook_active>>
       ELSE /\ ccfg' = [ccfg EXCEPT ![t] = [opts |-> o, res |-> c]]
            /\ hooks' = SetLocalVfsHooks(hooks, NoHooks)
            /\ hook_active' = FALSE
            /\ pc' = [pc EXCEPT ![t] = "sr_enter"]
            /\ out' = out

CreateCall(t) ==
    /\ MayEnter(t)
    /\ \E o \in CreateInputs : CreateEnter(t, o)
    /\ UNCHANGED <<ioVars, startVars, compVars, hthreads, began, delivered, events, rm_runs,
                   procVars, stdin, supVars, idVars, pending, preq, closed,
                   vm_id, last_vm_id, reader_pc, tmo, rid, cid>>

\* self._vm_id = result["id"]
CrSetVm(t) ==
    /\ pc[t] = "cr_setvm"
    /\ vm_id' = out[t].val
    /\ pc' = [pc EXCEPT ![t] = "cr_install"]
    /\ UNCHANGED <<ioVars, startVars, extVars, procVars, stdin, supVars, idVars,
                   pending, preq, closed, last_vm_id, hooks, reader_pc,
                   callVars>>

\* self._set_local_vfs_hooks(local_hooks, local_mutate_hooks, local_action_hooks)
CrInstall(t) ==
    /\ pc[t] = "cr_install"
    /\ hooks' = SetLocalVfsHooks(hooks, ccfg[t].res.tables)
    /\ hook_active' = FALSE
    /\ pc' = [pc EXCEPT ![t] = "done"]
    /\ UNCHANGED <<ioVars, startVars, compVars, hthreads, began, delivered, events, rm_runs,
                   procVars, stdin, supVars, idVars, pending, preq, closed,
                   vm_id, last_vm_id, reader_pc, callVars>>

\* ------------------------------------------------------------ remove()
\* (mutation) only the id recorded by close() is used
RemoveTargetLastOnly(v, l) == l

\* vm_id = self._vm_id or self._last_vm_id
RemoveTarget(v, l) == IF v # 0 THEN v ELSE l

\* remove(): if not vm_id: return; subprocess.run([binary_path, "rm", vm_id],
\* check=True), which raises when rm exits with a non-zero status
Remove ==
    /\ Len(rm_runs) < MaxRemoves
    /\ LET v == RemoveTarget(vm_id, last_vm_id) IN
         \E failed \in BOOLEAN :
            /\ (v = 0) => ~failed
            /\ rm_runs' = Append(rm_runs, [id |-> v, raised |-> failed])
    /\ UNCHANGED <<ioVars, startVars, compVars, dispVars, procVars, stdin, supVars,
                   idVars, pending, preq, vmVars, reader_pc, pc, callVars>>

\* ------------------------------------------------------------- close()
\* close(): if self._closed: return
CloseCall(t) ==
    /\ MayEnter(t)
    /\ op' = [op EXCEPT ![t] = "close"]
    /\ pc' = [pc EXCEPT ![t] = IF closed THEN "done" ELSE "cl_mark"]
    /\ UNCHANGED <<ioVars, startVars, extVars, procVars, stdin, supVars, idVars,
                   pending, preq, vmVars, reader_pc, tmo, rid, cid, out, ccfg>>

\* self._closed = True; self._last_vm_id = self._vm_id
ClMark(t) ==
    /\ pc[t] = "cl_mark"
    /\ closed' = TRUE
    /\ last_vm_id' = vm_id
    /\ pc' = [pc EXCEPT ![t] = "cl_hooks"]
    /\ UNCHANGED <<ioVars, startVars, extVars, procVars, stdin, supVars, idVars,
                   pending, preq, vm_id, hooks, reader_pc, callVars>>

\* self._set_local_vfs_hooks([], [], []);
\* if self._process is None or self._process.poll() is not None: return;
\* else self._send_request("close", ..., timeout=effective_timeout + 1.0)
ClHooks(t) ==
    /\ pc[t] = "cl_hooks"
    /\ hooks' = SetLocalVfsHooks(hooks, NoHooks)
    /\ hook_active' = FALSE
    /\ IF NotRunning
       THEN /\ pc' = [pc EXCEPT ![t] = "done"]
            /\ tmo' = tmo
       ELSE /\ pc' = [pc EXCEPT ![t] = "sr_enter"]
            /\ tmo' = [tmo EXCEPT ![t] = TRUE]
    /\ UNCHANGED <<ioVars, startVars, compVars, hthreads, began, delivered, events, rm_runs,
                   procVars, stdin, supVars, idVars, pending, preq, closed,
                   vm_id, last_vm_id, reader_pc, op, rid, cid, out, ccfg>>

\* self._process.stdin.close()
ClStdin(t) ==
    /\ pc[t] = "cl_stdin"
    /\ stdinOpen' = FALSE
    /\ pc' = [pc EXCEPT ![t] = "cl_wait"]
    /\ UNCHANGED <<ioVars, startVars, extVars, process, procExited, stdoutClosed,
                   stdin, supVars, idVars, pending, preq, vmVars, reader_pc,
                   callVars>>

\* self._process.wait(timeout=...), on expiry kill() and wait(1): the process is gone
ClWait(t) ==
    /\ pc[t] = "cl_wait"
    /\ procExited' = TRUE
    /\ stdoutClosed' = TRUE
    /\ pc' = [pc EXCEPT ![t] = "done"]
    /\ live' = IF procExited THEN live ELSE live - 1
    /\ UNCHANGED <<ioVars, spc, readers, extVars, process, stdinOpen, stdin, supVars,
                   idVars, pending, preq, vmVars, reader_pc, callVars>>

\* ------------------------------------------------------- specifications
\* the transport: start(), concurrent _send_request calls, reader, supervisor
NextTransport ==
    \/ StartSpawn
    \/ StartReader
    \/ SupRespond
    \/ SupCloseStdout
    \/ SupExit
    \/ ReaderRead
    \/ ReaderEOF
    \/ \E t \in Threads : RequestCall(t)
    \/ \E t \in Threads : SrRegister(t)
    \/ \E t \in Threads : SrWrite(t)
    \/ \E t \in Threads : SrWaitDone(t)
    \/ \E t \in Threads : SrWaitTimeout(t)
    \/ \E t \in Threads : SrCancelAlloc(t)
    \/ \E t \in Threads : SrCancelWrite(t)
    \/ \E t \in Threads : SrPop(t)

\* the transport together with create() and close()
Next ==
    \/ NextTransport
    \/ \E t \in Threads : SrEnter(t)
    \/ \E t \in Threads : CreateCall(t)
    \/ \E t \in Threads : CrSetVm(t)
    \/ \E t \in Threads : CrInstall(t)
    \/ \E t \in Threads : CloseCall(t)
    \/ \E t \in Threads : ClMark(t)
    \/ \E t \in Threads : ClHooks(t)
    \/ \E t \in Threads : ClStdin(t)
    \/ \E t \in Threads : ClWait(t)

Spec == Init /\ [][Next]_vars

SpecTransport == Init /\ [][NextTransport]_vars

\* the same with every thread eventually scheduled and a supervisor that
\* eventually closes its stdout: the reader reads what there is to read and
\* handles EOF, and every caller takes its next step
SpecTransportFair ==
    /\ SpecTransport
    /\ WF_vars(SupCloseStdout)
    /\ WF_vars(ReaderRead)
    /\ WF_vars(ReaderEOF)
    /\ \A t \in Threads :
          /\ WF_vars(SrRegister(t))
          /\ WF_vars(SrWrite(t))
          /\ WF_vars(SrWaitDone(t))
          /\ WF_vars(SrWaitTimeout(t))
          /\ WF_vars(SrCancelAlloc(t))
          /\ WF_vars(SrCancelWrite(t))
          /\ WF_vars(SrPop(t))

\* the transport together with close()
NextClose ==
    \/ NextTransport
    \/ \E t \in Threads : SrEnter(t)
    \/ \E t \in Threads : CloseCall(t)
    \/ \E t \in Threads : ClMark(t)
    \/ \E t \in Threads : ClHooks(t)
    \/ \E t \in Threads : ClStdin(t)
    \/ \E t \in Threads : ClWait(t)

SpecClose == Init /\ [][NextClose]_vars

\* _compile_vfs_hooks applied to cfg_in
CompileCall ==
    /\ compiled = NotCompiled
    /\ compiled' = CompileVfsHooks(cfg_in)
    /\ UNCHANGED <<ioVars, startVars, cfg_in, dispVars, rm_runs, procVars, stdin,
                   supVars, idVars, pending, preq, vmVars, reader_pc, pc,
                   callVars>>

NextCompile == CompileCall

SpecCompile == InitCompile /\ [][NextCompile]_vars

\* start() called from several threads, and the subprocess exiting
NextStart ==
    \/ \E s \in Starters : StartCall(s)
    \/ \E s \in Starters : StartPopen(s)
    \/ \E s \in Starters : StartThread(s)
    \/ SupExit

SpecStart == Init /\ [][NextStart]_vars

\* start(), the supervisor, the reader and the steps inside _send_request
NextCore ==
    \/ StartSpawn
    \/ StartReader
    \/ SupRespond
    \/ SupCloseStdout
    \/ SupExit
    \/ ReaderRead
    \/ ReaderEOF
    \/ \E t \in Threads : SrEnter(t)
    \/ \E t \in Threads : SrRegister(t)
    \/ \E t \in Threads : SrWrite(t)
    \/ \E t \in Threads : SrWaitDone(t)
    \/ \E t \in Threads : SrWaitTimeout(t)
    \/ \E t \in Threads : SrCancelAlloc(t)
    \/ \E t \in Threads : SrCancelWrite(t)
    \/ \E t \in Threads : SrPop(t)

\* create() and close() on one client
NextLifecycle ==
    \/ NextCore
    \/ \E t \in Threads : CreateCall(t)
    \/ \E t \in Threads : CrSetVm(t)
    \/ \E t \in Threads : CrInstall(t)
    \/ \E t \in Threads : CloseCall(t)
    \/ \E t \in Threads : ClMark(t)
    \/ \E t \in Threads : ClHooks(t)
    \/ \E t \in Threads : ClStdin(t)
    \/ \E t \in Threads : ClWait(t)

SpecLifecycle == Init /\ [][NextLifecycle]_vars

\* create() and close() with events arriving from the supervisor
NextHooks ==
    \/ NextLifecycle
    \/ SupEvent
    \/ \E i \in DOMAIN hthreads : SafeEnter(i)
    \/ \E i \in DOMAIN hthreads : HookBegin(i)
    \/ \E i \in DOMAIN hthreads : HookEnd(i)
    \/ \E i \in DOMAIN hthreads : SafeExit(i)

SpecHooks == Init /\ [][NextHooks]_vars

\* create(), close() and remove() on one client
NextRemove ==
    \/ NextLifecycle
    \/ Remove

SpecRemove == Init /\ [][NextRemove]_vars

\* the transport together with create()
NextCreate ==
    \/ NextTransport
    \/ \E t \in Threads : SrEnter(t)
    \/ \E t \in Threads : CreateCall(t)
    \/ \E t \in Threads : CrSetVm(t)
    \/ \E t \in Threads : CrInstall(t)

SpecCreate == Init /\ [][NextCreate]_vars

\* create() again on a client that an earlier create() has set up, with a
\* supervisor that answers with a result or an error, or closes its stdout
NextRecreate ==
    \/ SupRespond
    \/ SupCloseStdout
    \/ ReaderRead
    \/ ReaderEOF
    \/ \E t \in Threads : CreateCall(t)
    \/ \E t \in Threads : SrEnter(t)
    \/ \E t \in Threads : SrRegister(t)
    \/ \E t \in Threads : SrWrite(t)
    \/ \E t \in Threads : SrWaitDone(t)
    \/ \E t \in Threads : SrPop(t)
    \/ \E t \in Threads : CrSetVm(t)
    \/ \E t \in Threads : CrInstall(t)

\* the client after start() and one create(o) that succeeded with no other
\* call in between: request 1 was answered with the VM id, the compiled
\* tables are installed, and the call has returned; who is the caller
\* thread that made it, 0 for a thread that makes no other call
CreatedBy(o, who) ==
    LET c == CompileVfsHooks(o.vfs_interception)
        msg == [id |-> 1, kind |-> "result", val |-> Payload(1)] IN
    /\ process = "proc"
    /\ procExited = FALSE
    /\ stdinOpen = TRUE
    /\ stdoutClosed = FALSE
    /\ stdin = <<RequestLine("create", 1, c.wire)>>
    /\ stdout = <<>>
    /\ sent = {msg}
    /\ request_id = 1
    /\ issued = <<1>>
    /\ pending = {}
    /\ preq = [i \in Ids |-> IF i = 1 THEN Deliver(NewPending, msg)
                              ELSE NewPending]
    /\ closed = FALSE
    /\ vm_id = Payload(1)
    /\ last_vm_id = 0
    /\ hooks = c.tables
    /\ reader_pc = "read"
    /\ pc = [t \in Threads |-> IF t = who THEN "done" ELSE "idle"]
    /\ op = [t \in Threads |-> IF t = who THEN "create" ELSE None]
    /\ tmo = [t \in Threads |-> FALSE]
    /\ rid = [t \in Threads |-> IF t = who THEN 1 ELSE 0]
    /\ cid = [t \in Threads |-> 0]
    /\ out = [t \in Threads |-> IF t = who THEN Outcome("result", Payload(1))
                                 ELSE NoOut]
    /\ ccfg = [t \in Threads |-> IF t = who THEN [opts |-> o, res |-> c]
                                  ELSE NoCreate]
    /\ spc = [s \in Starters |-> "idle"]
    /\ live = 1
    /\ readers = 1
    /\ cfg_in = NoConfig
    /\ compiled = NotCompiled
    /\ hook_active = FALSE
    /\ hthreads = <<>>
    /\ began = <<>>
    /\ events = 0
    /\ delivered = <<>>
    /\ rm_runs = <<>>
    /\ fcall = [t \in Threads |-> NoFile]
    /\ sinks = [t \in Threads |-> NoSinks]
    /\ files = [p \in FilePaths |-> NoData]
    /\ notif = [cur |-> NoNotification, seen |-> <<>>]
    /\ locks = NoLocks
    /\ pipe = <<>>
    /\ wbuf = [t \in Threads |-> <<>>]
    /\ rmsg = NoLine

\* the same, the call made by caller thread 1
AfterCreate(o) == CreatedBy(o, 1)

\* the configurations the dispatcher is run with: those of ValidCreates and
\* one with a safe and a dangerous event callback
DispatchCreates ==
    ValidCreates \cup
        {CreateOptions("img", VFSInterceptionConfig(<<EventRule, DangerousRule>>))}

InitDispatch == \E o \in DispatchCreates : AfterCreate(o)

InitRecreate == \E o \in ValidCreates : CreatedBy(o, 0)
SpecRecreate == InitRecreate /\ [][NextRecreate]_vars

\* the event dispatcher on a created client: events from the supervisor and
\* from inside running callbacks, while another create() may replace the tables
NextDispatch ==
    \/ SupEvent
    \/ SupRespond
    \/ ReaderRead
    \/ \E t \in Threads : CreateCall(t)
    \/ \E t \in Threads : SrEnter(t)
    \/ \E t \in Threads : SrRegister(t)
    \/ \E t \in Threads : SrWrite(t)
    \/ \E t \in Threads : SrWaitDone(t)
    \/ \E t \in Threads : SrPop(t)
    \/ \E t \in Threads : CrSetVm(t)
    \/ \E t \in Threads : CrInstall(t)
    \/ \E i \in DOMAIN hthreads : SafeEnter(i)
    \/ \E i \in DOMAIN hthreads : HookBegin(i)
    \/ \E i \in DOMAIN hthreads : HookNested(i)
    \/ \E i \in DOMAIN hthreads : HookEnd(i)
    \/ \E i \in DOMAIN hthreads : SafeExit(i)

SpecDispatch == InitDispatch /\ [][NextDispatch]_vars

\* a configuration with two safe event callbacks and a dangerous one
RaiseCreates ==
    {CreateOptions("img", VFSInterceptionConfig(<<EventRule, EventRule,
                                                   DangerousRule>>))}

InitRaise == \E o \in RaiseCreates : AfterCreate(o)

\* the event dispatcher with callbacks that return or raise, beside callers
\* that wait for their responses
NextRaise ==
    \/ SupEvent
    \/ SupRespond
    \/ ReaderRead
    \/ \E t \in Threads : RequestCall(t)
    \/ \E t \in Threads : SrRegister(t)
    \/ \E t \in Threads : SrWrite(t)
    \/ \E t \in Threads : SrWaitDone(t)
    \/ \E t \in Threads : SrPop(t)
    \/ \E i \in DOMAIN hthreads : SafeEnter(i)
    \/ \E i \in DOMAIN hthreads : HookBegin(i)
    \/ \E i \in DOMAIN hthreads : HookEnd(i)
    \/ \E i \in DOMAIN hthreads : HookRaise(i)
    \/ \E i \in DOMAIN hthreads : SafeExit(i)

SpecRaise == InitRaise /\ [][NextRaise]_vars

\* the same with every started callback thread eventually scheduled
SpecDispatchFair ==
    /\ SpecDispatch
    /\ WF_vars(\E i \in DOMAIN hthreads : SafeEnter(i))
    /\ WF_vars(\E i \in DOMAIN hthreads : HookBegin(i))

\* the configurations the hooks of the file calls are run with: action hooks
\* for write only and for a path followed by a mutate hook, and two mutate hooks
FileCreates ==
    {CreateOptions("img", VFSInterceptionConfig(<<ActionRuleWrite, ActionRuleW,
                                                   MutateRule>>)),
     CreateOptions("img", VFSInterceptionConfig(<<MutateRuleW, MutateRule>>))}

InitFiles == \E o \in FileCreates : CreatedBy(o, 0)

\* the file calls on a created client that has local hooks
NextFiles ==
    \/ SupFile
    \/ ReaderRead
    \/ \E t \in Threads : FileCallShort(t)
    \/ \E t \in Threads : FwMutate(t)
    \/ \E t \in Threads : SrEnter(t)
    \/ \E t \in Threads : SrRegister(t)
    \/ \E t \in Threads : SrWrite(t)
    \/ \E t \in Threads : SrWaitDone(t)
    \/ \E t \in Threads : SrPop(t)

SpecFiles == InitFiles /\ [][NextFiles]_vars

\* the configurations without a mutate hook: an action hook alone, a wire
\* rule alone, and no interception at all
PlainCreates ==
    {CreateOptions("img", VFSInterceptionConfig(<<ActionRule>>)),
     CreateOptions("img", VFSInterceptionConfig(<<AllowRuleW>>)),
     CreateOptions("img", NoConfig)}

InitRoundTrip == \E o \in PlainCreates : CreatedBy(o, 0)

\* write_file and read_file on a created client without mutate hooks, with a
\* supervisor that keeps the files
NextRoundTrip ==
    \/ SupFile
    \/ ReaderRead
    \/ \E t \in Threads : FileCall(t)
    \/ \E t \in Threads : FwMutate(t)
    \/ \E t \in Threads : SrEnter(t)
    \/ \E t \in Threads : SrRegister(t)
    \/ \E t \in Threads : SrWrite(t)
    \/ \E t \in Threads : SrWaitDone(t)
    \/ \E t \in Threads : SrPop(t)

SpecRoundTrip == InitRoundTrip /\ [][NextRoundTrip]_vars

\* the client after start() returned: the supervisor runs and the reader
\* thread is in its loop
InitStream ==
    /\ process = "proc"
    /\ procExited = FALSE
    /\ stdinOpen = TRUE
    /\ stdoutClosed = FALSE
    /\ stdin = <<>>
    /\ stdout = <<>>
    /\ sent = {}
    /\ request_id = 0
    /\ issued = <<>>
    /\ pending = {}
    /\ preq = [i \in Ids |-> NewPending]
    /\ closed = FALSE
    /\ vm_id = 0
    /\ last_vm_id = 0
    /\ hooks = NoHooks
    /\ reader_pc = "read"
    /\ pc = [t \in Threads |-> "idle"]
    /\ op = [t \in Threads |-> None]
    /\ tmo = [t \in Threads |-> FALSE]
    /\ rid = [t \in Threads |-> 0]
    /\ cid = [t \in Threads |-> 0]
    /\ out = [t \in Threads |-> NoOut]
    /\ ccfg = [t \in Threads |-> NoCreate]
    /\ spc = [s \in Starters |-> "idle"]
    /\ live = 1
    /\ readers = 1
    /\ compiled = NotCompiled
    /\ hook_active = FALSE
    /\ hthreads = <<>>
    /\ began = <<>>
    /\ events = 0
    /\ delivered = <<>>
    /\ rm_runs = <<>>
    /\ fcall = [t \in Threads |-> NoFile]
    /\ sinks = [t \in Threads |-> NoSinks]
    /\ files = [p \in FilePaths |-> NoData]
    /\ notif = [cur |-> NoNotification, seen |-> <<>>]
    /\ locks = NoLocks
    /\ pipe = <<>>
    /\ wbuf = [t \in Threads |-> <<>>]
    /\ rmsg = NoLine
    /\ cfg_in = NoConfig

\* exec_stream calls without a timeout on a started client, with a
\* supervisor that streams output before it answers
NextStream ==
    \/ SupRespond
    \/ SupStream
    \/ ReaderRead
    \/ ReaderNotify
    \/ ReaderCallback
    \/ \E t \in Threads : StreamCall(t)
    \/ \E t \in Threads : SrEnter(t)
    \/ \E t \in Threads : SrRegister(t)
    \/ \E t \in Threads : SrWrite(t)
    \/ \E t \in Threads : SrWaitDone(t)
    \/ \E t \in Threads : SrPop(t)

SpecStream == InitStream /\ [][NextStream]_vars

\* the same with sinks whose write can raise
NextStreamRaise ==
    \/ NextStream
    \/ ReaderCallbackRaise

SpecStreamRaise == InitStream /\ [][NextStreamRaise]_vars

\* exec_stream calls with both sinks, with and without a timeout
NextStreamTimed ==
    \/ SupRespond
    \/ SupStreamPlain
    \/ ReaderRead
    \/ ReaderNotify
    \/ ReaderCallback
    \/ \E t \in Threads : StreamCallTimed(t)
    \/ \E t \in Threads : SrEnter(t)
    \/ \E t \in Threads : SrRegister(t)
    \/ \E t \in Threads : SrWrite(t)
    \/ \E t \in Threads : SrWaitDone(t)
    \/ \E t \in Threads : SrWaitTimeout(t)
    \/ \E t \in Threads : SrCancelAlloc(t)
    \/ \E t \in Threads : SrCancelWrite(t)
    \/ \E t \in Threads : SrPop(t)

SpecStreamTimed == InitStream /\ [][NextStreamTimed]_vars

\* the transport statement by statement, with the four locks: list_files
\* calls with and without a timeout on a started client, the reader, and a
\* supervisor that answers, reports an event and closes its stdout
NextLocks ==
    \/ SupRespond
    \/ SupEvent
    \/ SupCloseStdout
    \/ LkReaderRead
    \/ LkReaderAcquire
    \/ LkReaderGet
    \/ LkReaderSet
    \/ LkReaderFail
    \/ LkReaderEvent
    \/ \E t \in Threads : LkCall(t)
    \/ \E t \in Threads : LkAcquire(t)
    \/ \E t \in Threads : LkSnapshot(t)
    \/ \E t \in Threads : LkNextId(t)
    \/ \E t \in Threads : LkRegister(t)
    \/ \E t \in Threads : LkWrite(t)
    \/ \E t \in Threads : LkFlush(t)
    \/ \E t \in Threads : LkWaitDone(t)
    \/ \E t \in Threads : LkWaitTimeout(t)
    \/ \E t \in Threads : LkPop(t)

SpecLocks == InitStream /\ [][NextLocks]_vars

TypeOK ==
    /\ request_id \in 0..IdBound
    /\ pending \subseteq Ids
    /\ reader_pc \in {"none", "read", "notify", "done"}
                      \cup ReaderAcquirePoints
                      \cup {Inside(at) : at \in ReaderAcquirePoints}
                      \cup {"lk_set"}
    /\ \A l \in LockNames : locks[l] \in {Free} \cup Threads \cup {ReaderId}

\* ------------------------------------------------------------ properties
Range(f) == {f[k] : k \in DOMAIN f}
CancelsFor(i) ==
    {k \in 1..Len(stdin) : stdin[k].method = "cancel" /\ stdin[k].target = i}
CloseLines == {k \in 1..Len(stdin) : stdin[k].method = "close"}
\* thread t is inside _send_request with its entry possibly in the table
InFlight(t) == pc[t] \in {"sr_write", "sr_wait", "sr_cancel", "sr_cancel_write",
                          "sr_pop"}
\* thread t's _send_request has returned or raised
Returned(t) == out[t].kind # "none" /\ pc[t] \notin {"sr_pop"}
\* the step in which thread t executes the first statements of _send_request
SendStep(t) ==
    /\ pc'[t] # pc[t]
    /\ \/ pc[t] = "idle" /\ op'[t] = "request"
       \/ pc[t] = "sr_enter"
\* the step in which thread t writes (or fails to write) its request line
WriteStep(t) == pc[t] = "sr_write" /\ pc'[t] # "sr_write"
\* the client state of section 4.7
ClientState ==
    IF process = None THEN (IF closed THEN "closed" ELSE "new")
    ELSE IF procExited THEN "closed"
    ELSE IF closed THEN "closing"
    ELSE "started"

\* C1: a call that returns a result, or raises an RPCError, got it from the
\* response the supervisor emitted for the id this call allocated, and from no
\* response with another id.
C1_ResponseReachesOriginator ==
    \A t \in Threads :
        /\ out[t].kind = "result" =>
              /\ [id |-> rid[t], kind |-> "result", val |-> out[t].val] \in sent
              /\ out[t].val = Payload(rid[t])
        /\ out[t].kind = "rpc_error" =>
              /\ [id |-> rid[t], kind |-> "error", val |-> out[t].val] \in sent
              /\ out[t].val = Payload(rid[t])

\* two calls in flight at once, one completed with its result and the other
\* with its RPCError
C1_Witness ==
    \E t, u \in Threads :
        /\ pc[t] = "sr_pop" /\ out[t].kind = "result"
        /\ pc[u] = "sr_pop" /\ out[u].kind = "rpc_error"
        /\ rid[t] > rid[u]

\* C2: the ids handed out, to requests and to cancels alike, are positive and
\* strictly increasing in the order they are handed out, so none repeats, and
\* every id a caller holds is one of them and is held by no one else.
C2_IdsStrictlyIncreasing ==
    /\ \A i \in 1..Len(issued) :
          /\ issued[i] > 0
          /\ \A j \in 1..Len(issued) : i < j => issued[i] < issued[j]
    /\ \A t \in Threads :
          /\ rid[t] # 0 => rid[t] \in Range(issued)
          /\ cid[t] # 0 => cid[t] \in Range(issued) /\ cid[t] # rid[t]
          /\ \A u \in Threads : u # t =>
                /\ rid[t] # 0 => rid[t] \notin {rid[u], cid[u]}
                /\ cid[t] # 0 => cid[t] \notin {rid[u], cid[u]}

\* two requests and two cancels have been given ids
C2_Witness ==
    /\ Len(issued) = 4
    /\ \A t \in Threads : rid[t] # 0 /\ cid[t] # 0

\* C3 as claimed: after a timeout exactly one cancel naming the timed-out
\* request is on stdin.
C3_ExactlyOneCancel ==
    \A t \in Threads :
        out[t].kind = "timeout" => Cardinality(CancelsFor(rid[t])) = 1

\* C3 as amended: a timed-out call has allocated a fresh id for its cancel; at
\* most one cancel naming the timed-out request is on stdin, it carries that
\* fresh id, and it is there whenever stdin is still writable (the failed write
\* of a cancel is swallowed); no cancel id is ever in the pending table; every
\* cancel on stdin belongs to a call that raised TimeoutError.
C3_BestEffortCancel ==
    /\ \A t \in Threads :
          out[t].kind = "timeout" =>
              /\ cid[t] \in Range(issued) /\ cid[t] > rid[t]
              /\ cid[t] \notin pending
              /\ Cardinality(CancelsFor(rid[t])) <= 1
              /\ WriteOK => Cardinality(CancelsFor(rid[t])) = 1
              /\ \A k \in CancelsFor(rid[t]) : stdin[k].id = cid[t]
    /\ \A k \in 1..Len(stdin) :
          stdin[k].method = "cancel" =>
              /\ stdin[k].id \notin pending
              /\ \E t \in Threads : /\ out[t].kind = "timeout"
                                    /\ stdin[k].target = rid[t]
                                    /\ stdin[k].id = cid[t]

\* a call has timed out, written its cancel and returned
C3_Witness ==
    \E t \in Threads :
        /\ pc[t] = "done" /\ out[t].kind = "timeout"
        /\ Cardinality(CancelsFor(rid[t])) = 1

\* C4: a call whose wait timed out ends with TimeoutError and nothing else,
\* whatever the reader has stored in its pending entry in the meantime.
C4_TimeoutNeverReturnsResult ==
    \A t \in Threads :
        (pc[t] \in {"sr_cancel", "sr_cancel_write"} \/ cid[t] # 0) =>
            /\ out[t].kind \in {"none", "timeout"}
            /\ pc[t] \in {"sr_pop", "done"} => out[t].kind = "timeout"

\* the response was stored in the entry after the wait timed out and before
\* the entry was removed
C4_Witness ==
    \E t \in Threads :
        /\ pc[t] = "sr_pop" /\ out[t].kind = "timeout"
        /\ rid[t] \in pending
        /\ preq[rid[t]].event /\ preq[rid[t]].result = Payload(rid[t])

\* C5 as claimed: whenever a call writes its request line, its id is in the
\* pending table.
C5_EntryPresentAtWrite ==
    [][\A t \in Threads : WriteStep(t) => rid[t] \in pending]_vars

\* C5 as amended: whenever a call writes its request line, its id is in the
\* pending table, unless the reader reached EOF after the entry was registered:
\* then the reader has ended and the entry is already completed with the
\* closed-unexpectedly error.
C5_EntryPresentUnlessEOF ==
    [][\A t \in Threads :
          WriteStep(t) =>
              \/ rid[t] \in pending
              \/ /\ reader_pc = "done"
                 /\ preq[rid[t]].event
                 /\ preq[rid[t]].error = ClosedErr]_vars

\* a request line was written after EOF had emptied the table
C5_Witness ==
    \E t \in Threads :
        /\ pc[t] = "sr_wait"
        /\ rid[t] \notin pending
        /\ \E k \in 1..Len(stdin) : stdin[k].id = rid[t]

\* C6: the pending table holds only ids of calls still inside _send_request;
\* once a call has returned or raised, its id is not in the table.
C6_NoEntryAfterReturn ==
    /\ \A t \in Threads : Returned(t) => rid[t] \notin pending
    /\ \A i \in pending : \E t \in Threads : InFlight(t) /\ rid[t] = i

\* one call has ended by timeout and another by a failed write
C6_Witness ==
    \E t, u \in Threads :
        /\ pc[t] = "done" /\ out[t].kind = "timeout"
        /\ pc[u] = "done" /\ out[u].kind = "write_failed"

\* C7: the step in which the reader sees EOF completes every entry of the
\* pending table with the closed-unexpectedly error, signals it, and empties
\* the table; the reader has then ended and stays so.
C7_EOFFailsAllPending ==
    [][/\ (reader_pc = "read" /\ reader_pc' = "done") =>
            /\ pending' = {}
            /\ \A i \in pending : preq'[i].event /\ preq'[i].error = ClosedErr
       /\ reader_pc = "done" => reader_pc' = "done" /\ stdout' = stdout]_vars

\* the reader has ended at EOF with two requests pending at that moment
C7_Witness ==
    /\ reader_pc = "done"
    /\ pending = {}
    /\ \E t, u \in Threads :
          /\ t # u
          /\ pc[t] = "sr_wait" /\ preq[rid[t]].error = ClosedErr
          /\ pc[u] = "sr_wait" /\ preq[rid[u]].error = ClosedErr

\* C8 as claimed: in every client state but started, _send_request fails with
\* not-running (and so writes nothing).
C8_OnlyInStarted ==
    [][\A t \in Threads :
          (SendStep(t) /\ ClientState # "started") =>
              out'[t].kind = "not_running"]_vars

\* C8 as amended: _send_request fails with not-running exactly in the states new
\* and closed, where it allocates no id and writes nothing; in closing, as in
\* started, it goes on to allocate an id (close() itself sends its close RPC in
\* that state).
C8_RejectedInNewAndClosed ==
    [][\A t \in Threads :
          SendStep(t) =>
              /\ ClientState \in {"new", "closed"} =>
                    /\ out'[t].kind = "not_running"
                    /\ rid'[t] = 0
                    /\ stdin' = stdin
              /\ ClientState \in {"started", "closing"} =>
                    /\ out'[t].kind = "none"
                    /\ pc'[t] = "sr_reg"]_vars

\* close() has run to the end and a later request was rejected, while the
\* close RPC itself was written in the state closing
C8_Witness ==
    /\ closed /\ procExited
    /\ CloseLines # {}
    /\ \E t \in Threads : op[t] = "request" /\ out[t].kind = "not_running"

\* C9: a _send_request made while the process is absent or has exited ends with
\* not-running in its first step: the id counter, the pending table, the
\* pending objects and stdin are unchanged by it, and the call holds no id.
C9_NotRunningHasNoEffect ==
    [][\A t \in Threads :
          (SendStep(t) /\ (process = None \/ procExited)) =>
              /\ out'[t].kind = "not_running"
              /\ pc'[t] \in {"done", "cl_stdin"}
              /\ rid'[t] = 0
              /\ request_id' = request_id
              /\ issued' = issued
              /\ pending' = pending
              /\ preq' = preq
              /\ stdin' = stdin]_vars

\* a call was rejected after the process had exited, other calls having
\* allocated ids before
C9_Witness ==
    \E t \in Threads :
        /\ out[t].kind = "not_running" /\ rid[t] = 0
        /\ procExited
        /\ request_id > 0

\* C10 as claimed: whatever the interleaving of close() calls, at most one close
\* RPC is written to the subprocess.
C10_AtMostOneCloseRPC == Cardinality(CloseLines) <= 1

\* ------------------------------------------------- create() and the hooks
\* create() would reject these options: no image, or a rule the compiler rejects
Rejected(o) ==
    \/ o.image = ""
    \/ \E k \in DOMAIN o.vfs_interception.rules :
          CompileRule(o.vfs_interception.rules[k]).kind = "error"
\* the step in which thread t executes the first statements of create()
CreateStep(t) == pc[t] = "idle" /\ op'[t] = "create"
\* the create() calls whose options compiled
Compiled == {t \in Threads : op[t] = "create" /\ ccfg[t].res.kind = "ok"}

\* C14 as claimed: whenever create() changes the hook tables, the new contents
\* are the complete tables of the configuration that create() was given, so an
\* observer sees the previous configuration or the new one and nothing else.
C14_PreviousOrNewTables ==
    [][\A t \in Threads :
          ((CreateStep(t) \/ pc[t] = "cr_install") /\ pc'[t] # pc[t]
              /\ hooks' # hooks)
          => hooks' = ccfg'[t].res.tables]_vars

\* C14 as amended: the three tables always change together; a create() replaces
\* them twice, by the empty tables when it starts and by the complete tables of
\* its configuration after a successful response, so at every moment the tables
\* are all empty or the complete tables of one configuration given to create().
C14_EmptyOrCompleteTables ==
    /\ [][\A t \in Threads :
            (pc'[t] # pc[t] /\ hooks' # hooks) =>
                \/ CreateStep(t) /\ hooks' = NoHooks
                \/ pc[t] = "cr_install" /\ out[t].kind = "result"
                      /\ hooks' = ccfg[t].res.tables]_vars
    /\ [](hooks \in {NoHooks} \cup {ccfg[t].res.tables : t \in Compiled})

\* a create() is in flight after an earlier one installed its tables, and the
\* tables are empty: neither the previous configuration nor the new one
C14_Witness ==
    \E t, u \in Threads :
        /\ pc[u] = "done" /\ u \in Compiled /\ out[u].kind = "result"
        /\ ccfg[u].res.tables.mut # <<>>
        /\ pc[t] = "sr_wait" /\ t \in Compiled
        /\ hooks = NoHooks

\* C17: a create() whose options are rejected (no image, or a rule the hook
\* compiler rejects) raises in its first step: that step allocates no id,
\* registers and writes nothing, and leaves the hook tables and vm_id as they
\* were; the call holds no request id.
C17_RejectedCreateHasNoEffect ==
    [][\A t \in Threads :
          (CreateStep(t) /\ Rejected(ccfg'[t].opts)) =>
              /\ out'[t].kind = "config_error"
              /\ pc'[t] = "done"
              /\ rid'[t] = 0
              /\ UNCHANGED <<request_id, issued, pending, stdin, hooks,
                             hook_active, vm_id>>]_vars

\* a create() was rejected by the hook compiler on a client that has hooks and
\* a vm_id from an earlier create(), and they are still there
C17_Witness ==
    \E t \in Threads :
        /\ out[t].kind = "config_error"
        /\ ccfg[t].opts.image # ""
        /\ hooks # NoHooks
        /\ vm_id # 0

\* the create() calls made so far, and the one made last
Creates == {t \in Threads : op[t] = "create"}
LastCreate == CHOOSE t \in Creates : \A u \in Creates : u <= t
\* the create() calls that got a result and have assigned vm_id from it
Assigned ==
    {t \in Creates : out[t].kind = "result" /\ pc[t] \in {"cr_install", "done"}}

\* C15 as claimed: once every create() has ended, vm_id is set exactly when
\* the create() made last got a result, and it is then the id of that result.
C15_VmIdOfLastCreate ==
    (Creates # {} /\ \A t \in Creates : pc[t] = "done") =>
        /\ vm_id # 0 <=> out[LastCreate].kind = "result"
        /\ vm_id # 0 => vm_id = out[LastCreate].val

\* C15 as amended: vm_id is set exactly when some create() has got a result
\* and assigned it; it changes only in that assignment, to the id the result
\* carries, so it is the id of the create() that assigned last, and a create()
\* that fails leaves it as it was.
C15_VmIdOfLastSuccess ==
    /\ [](vm_id # 0 <=> Assigned # {})
    /\ [](vm_id # 0 => \E t \in Assigned : vm_id = out[t].val)
    /\ [][vm_id' # vm_id =>
            \E t \in Creates : /\ pc[t] = "cr_setvm" /\ pc'[t] = "cr_install"
                                /\ out[t].kind = "result"
                                /\ vm_id' = out[t].val]_vars

\* the create() made last failed with an RPC error and vm_id still holds the
\* id of the earlier, successful one
C15_Witness ==
    /\ Cardinality(Creates) = 2
    /\ \A t \in Creates : pc[t] = "done"
    /\ out[LastCreate].kind = "rpc_error"
    /\ vm_id # 0

\* ------------------------------------------------------ the hook compiler
\* the rules of the configuration that was compiled
InputRules == IF cfg_in = NoConfig THEN {} ELSE Range(cfg_in.rules)
HasEventCallback(r) == r.hook # None \/ r.dangerous_hook # None
HasBeforeCallback(r) == r.mutate_hook # None \/ r.action_hook # None

\* C18: a configuration with a rule that sets two or more of the four
\* callbacks is rejected, whatever the rule's phase, ops, path and action.
C18_TwoCallbacksRejected ==
    (compiled # NotCompiled /\ \E r \in InputRules : CallbackCount(r) >= 2)
        => compiled.kind = "error"

\* a rule with a mutate and an action callback, otherwise acceptable, was rejected
C18_Witness ==
    /\ compiled.kind = "error"
    /\ cfg_in # NoConfig
    /\ Len(cfg_in.rules) = 1
    /\ LET r == cfg_in.rules[1] IN
         /\ r.mutate_hook # None /\ r.action_hook # None
         /\ r.hook = None /\ r.dangerous_hook = None
         /\ r.phase = "before" /\ r.action = "allow"

\* C19: a configuration is rejected when one of its rules carries an event or
\* dangerous callback and a phase other than after, a mutate or action callback
\* and the phase after, any callback and an action other than unset or allow,
\* or no callback and the action mutate_write (phase and action compared as
\* the compiler reads them: case folded, the action also stripped).
C19_BadCombinationsRejected ==
    (compiled # NotCompiled /\
     \E r \in InputRules :
        \/ HasEventCallback(r) /\ Lower(r.phase) # VFS_HOOK_PHASE_AFTER
        \/ HasBeforeCallback(r) /\ Lower(r.phase) = VFS_HOOK_PHASE_AFTER
        \/ CallbackCount(r) >= 1 /\ NormAction(r) \notin {"", VFS_HOOK_ACTION_ALLOW}
        \/ CallbackCount(r) = 0 /\ NormAction(r) = "mutate_write")
        => compiled.kind = "error"

\* a rule with only an action callback, the action allow and the phase after
\* was rejected
C19_Witness ==
    /\ compiled.kind = "error"
    /\ cfg_in # NoConfig
    /\ Len(cfg_in.rules) = 1
    /\ LET r == cfg_in.rules[1] IN
         /\ CallbackCount(r) = 1 /\ r.action_hook # None
         /\ r.phase = "AFTER" /\ r.action = "allow"

\* C20 as claimed: a configuration whose only rule has no callback and the
\* action exec_after compiles, and the rule is among the wire rules unchanged.
C20_ExecAfterPassedThrough ==
    (compiled # NotCompiled /\ cfg_in # NoConfig /\ Len(cfg_in.rules) = 1
        /\ CallbackCount(cfg_in.rules[1]) = 0
        /\ NormAction(cfg_in.rules[1]) = "exec_after")
        => /\ compiled.kind = "ok"
           /\ compiled.wire # NoWire
           /\ compiled.wire.rules = cfg_in.rules

\* ------------------------------------------------------------- start()
\* C13 as claimed: whatever the interleaving of start() calls, the client has
\* at most one live supervisor subprocess and at most one reader thread.
C13_OneProcessOneReader == live <= 1 /\ readers <= 1

\* ------------------------------------------------- close() and the hooks
\* C11 as claimed: once close() has set _closed and cleared the hook tables,
\* the tables are empty in every later state, whatever create() calls are in
\* flight or made afterwards.
C11_HooksEmptyAfterClose ==
    (closed /\ \A t \in Threads : pc[t] # "cl_hooks") => hooks = NoHooks

\* ------------------------------------------------------------ remove()
\* the step of a remove() call, and the entry it adds to the history
RemoveStep == Len(rm_runs') = Len(rm_runs) + 1
LastRun == rm_runs'[Len(rm_runs')]

C12_NoCallbackAfterClose == \A k \in DOMAIN began : ~began[k].afterClose

\* ------------------------------------------- the outputs of the compiler
\* the input rules without a callback, with an event or dangerous callback,
\* with a mutate callback and with an action callback, in declaration order
NoCallbackRules == SelectSeq(cfg_in.rules, LAMBDA r : CallbackCount(r) = 0)
EventRules == SelectSeq(cfg_in.rules, HasEventCallback)
MutateRules == SelectSeq(cfg_in.rules, LAMBDA r : r.mutate_hook # None)
ActionRules == SelectSeq(cfg_in.rules, LAMBDA r : r.action_hook # None)
\* the rules sent on the wire, none when no wire configuration is sent
WireRules == IF compiled.wire = NoWire THEN <<>> ELSE compiled.wire.rules
\* the local hook h was made from the rule r and carries the callback cb
MadeFrom(h, r, cb) == h.hook = cb /\ h.path = r.path /\ h.ops = NormOps(r)

\* C21: when a configuration compiles, the wire rules are exactly its rules
\* without a callback, the event table exactly its rules with an event or
\* dangerous callback (flagged dangerous for the latter), the mutate table its
\* rules with a mutate callback and the action table its rules with an action
\* callback, each in declaration order; so every rule lands in exactly one
\* output and no rule with a callback is on the wire.
C21_EachRuleInItsOutput ==
    (compiled.kind = "ok" /\ cfg_in # NoConfig) =>
        LET t == compiled.tables IN
        /\ WireRules = NoCallbackRules
        /\ \A k \in DOMAIN WireRules : CallbackCount(WireRules[k]) = 0
        /\ Len(t.ev) = Len(EventRules)
        /\ \A k \in DOMAIN t.ev :
              /\ t.ev[k].dangerous = (EventRules[k].dangerous_hook # None)
              /\ MadeFrom(t.ev[k], EventRules[k],
                          IF t.ev[k].dangerous THEN EventRules[k].dangerous_hook
                          ELSE EventRules[k].hook)
        /\ Len(t.mut) = Len(MutateRules)
        /\ \A k \in DOMAIN t.mut :
              MadeFrom(t.mut[k], MutateRules[k], MutateRules[k].mutate_hook)
        /\ Len(t.act) = Len(ActionRules)
        /\ \A k \in DOMAIN t.act :
              MadeFrom(t.act[k], ActionRules[k], ActionRules[k].action_hook)
        /\ Len(WireRules) + Len(t.ev) + Len(t.mut) + Len(t.act)
              = Len(cfg_in.rules)

\* two mutate rules that differ in their path were compiled, and the mutate
\* table holds them in the order they were declared
C21_Witness ==
    /\ compiled.kind = "ok"
    /\ cfg_in # NoConfig
    /\ cfg_in.rules = <<MutateRuleW, MutateRule>>
    /\ Len(compiled.tables.mut) = 2
    /\ compiled.tables.mut[1].path = "/w/*"

\* C22: the wire configuration the compiler returns has emit_events set exactly
\* when the input set it or some rule with an event or dangerous callback was
\* compiled, and the compiler returns no wire configuration exactly when there
\* is no wire rule and emit_events is not set.
C22_EmitEventsAndWireNone ==
    compiled.kind = "ok" =>
        IF cfg_in = NoConfig THEN compiled.wire = NoWire
        ELSE LET emit == cfg_in.emit_events \/ Len(compiled.tables.ev) > 0
                 wired == \E k \in DOMAIN cfg_in.rules :
                             CallbackCount(cfg_in.rules[k]) = 0
             IN /\ compiled.wire = NoWire <=> (~wired /\ ~emit)
                /\ compiled.wire # NoWire =>
                      /\ compiled.wire.emit_events = emit
                      /\ (compiled.wire.rules = <<>>) = ~wired
                /\ Len(compiled.tables.ev) > 0
                      <=> \E r \in InputRules : HasEventCallback(r)

\* a configuration that did not set emit_events and has one event callback and
\* no other rule was compiled: the wire configuration has emit_events set and
\* no rules
C22_Witness ==
    /\ compiled.kind = "ok"
    /\ cfg_in # NoConfig
    /\ ~cfg_in.emit_events
    /\ cfg_in.rules = <<EventRule>>
    /\ compiled.wire # NoWire
    /\ compiled.wire.emit_events
    /\ compiled.wire.rules = <<>>

\* ------------------------------------------------- the event dispatcher
\* C23 as claimed: no safe callback ever begins executing for an event that a
\* running safe callback handed to the dispatcher.
C23_SafeCallbackNotReentered ==
    \A k \in DOMAIN began : ~(began[k].by = "safe" /\ ~began[k].dangerous)

\* the matching dangerous hooks over all deliveries so far
RECURSIVE SumDangerous(_)
SumDangerous(ds) ==
    IF ds = <<>> THEN 0 ELSE Head(ds).dangerous + SumDangerous(Tail(ds))
DangerousDelivered == SumDangerous(delivered)
\* the dangerous callbacks that have begun, and those started but not yet begun
DangerousBegun == Cardinality({k \in DOMAIN began : began[k].dangerous})
DangerousWaiting ==
    Cardinality({i \in DOMAIN hthreads : /\ hthreads[i].kind = "dangerous"
                                         /\ hthreads[i].st = "spawned"})
\* the most deliveries a behaviour has: each event starts at most one
\* dangerous thread and one safe batch, each of which delivers at most once
MaxDeliveries == MaxEvents * (2 ^ (MaxDepth + 1) - 1)

\* C24: every event handed to the dispatcher, by the reader or from inside a
\* running callback, starts one background thread of its own for each dangerous
\* hook it matches, whether or not the safe guard is set; each such thread
\* runs that one hook, and it does begin: the dangerous callbacks eventually
\* begun are at least as many as the matching events delivered.
C24_DangerousAlwaysInvoked ==
    /\ [](DangerousBegun + DangerousWaiting = DangerousDelivered)
    /\ [](\A i \in DOMAIN hthreads :
             hthreads[i].kind = "dangerous" =>
                 /\ Len(hthreads[i].hooks) = 1
                 /\ hthreads[i].hooks[1].dangerous)
    /\ \A n \in 1..MaxDeliveries :
          (DangerousDelivered >= n) ~> (DangerousBegun >= n)

\* an event was delivered from inside a running dangerous callback while the
\* safe guard was set, it matched a dangerous hook, and the callback has begun
\* for it
C24_Witness ==
    /\ \E k \in DOMAIN delivered :
          /\ delivered[k].by = "dangerous"
          /\ delivered[k].active
          /\ delivered[k].dangerous > 0
    /\ \E k \in DOMAIN began : began[k].dangerous /\ began[k].by = "dangerous"
    /\ DangerousBegun = DangerousDelivered

\* ------------------------------------- the local hooks of the file calls
FileOps == {"write_file", "read_file", "list_files"}
\* the step in which thread t executes the first statements of a file call
FileStep(t) == pc[t] = "idle" /\ op'[t] \in FileOps
\* the k-th action hook that a call invoked returned block
Blocking(call, k) == Lower(Strip(call.acts[k].returned)) = "block"

\* C25: when an action hook that a file call invokes (installed, its ops empty
\* or containing the call's operation, its path empty or matching) returns
\* block, the call raises the blocked-operation error in that same step: the
\* blocking hook is the last action hook invoked, no mutate hook is invoked,
\* no id is allocated, nothing is registered or written to stdin, and the
\* call never holds a request id.
C25_BlockedCallSendsNothing ==
    /\ [][\A t \in Threads :
            (FileStep(t) /\ \E k \in DOMAIN fcall'[t].acts :
                                Blocking(fcall'[t], k)) =>
                LET call == fcall'[t]
                    last == call.acts[Len(call.acts)] IN
                /\ out'[t].kind = "hook_blocked"
                /\ pc'[t] = "done"
                /\ \A k \in DOMAIN call.acts :
                      Blocking(call, k) <=> k = Len(call.acts)
                /\ last.hook \in DOMAIN hooks.act
                /\ Matches(hooks.act[last.hook],
                           [op |-> VfsOp(op'[t]), path |-> call.path])
                /\ call.muts = <<>>
                /\ rid'[t] = 0
                /\ UNCHANGED <<request_id, issued, pending, preq, stdin>>]_vars
    /\ [](\A t \in Threads :
            out[t].kind = "hook_blocked" =>
                /\ pc[t] = "done" /\ rid[t] = 0 /\ cid[t] = 0
                /\ fcall[t].muts = <<>>)

\* a write_file was blocked by the first of two matching action hooks on a
\* client that also has a mutate hook, and a list_files by the only hook that
\* matches it
C25_Witness ==
    /\ Len(hooks.act) = 2 /\ hooks.mut # <<>>
    /\ \E t, u \in Threads :
          /\ op[t] = "write_file" /\ out[t].kind = "hook_blocked"
          /\ fcall[t].path = "/w/f" /\ Len(fcall[t].acts) = 1
          /\ fcall[t].acts[1].hook = 1
          /\ op[u] = "list_files" /\ out[u].kind = "hook_blocked"
          /\ fcall[u].acts[1].hook = 2

\* the bytes that a value given to, or returned to, write_file stands for
Produced(v) == IF v.t = "str" THEN Utf8Encode(v.v) ELSE v.v
\* the payload after the first k mutate hooks that a call invoked, orig being
\* the content the call was given: what the last of them that returned a
\* value returned, orig when none did
RECURSIVE PayloadAfter(_, _, _)
PayloadAfter(orig, ms, k) ==
    IF k = 0 THEN orig
    ELSE IF ms[k].returned.t = "none" THEN PayloadAfter(orig, ms, k - 1)
    ELSE Produced(ms[k].returned)
\* the step in which thread t runs the mutate hooks of its write_file
MutateStep(t) == pc[t] = "fw_mutate" /\ pc'[t] # "fw_mutate"
\* the installed mutate hooks that match a write to the path
MatchingMutate(path) ==
    {k \in DOMAIN hooks.mut :
        Matches(hooks.mut[k], [op |-> "write", path |-> path])}

\* C26: write_file applies the matching mutate hooks in declaration order and
\* threads the payload: every hook invoked matches and comes later in the
\* table than the one before, each is given the length of the payload
\* produced so far (None leaving it unchanged), and when the call goes on all
\* matching hooks were invoked and the content of the write_file request is
\* the base64 of what the last hook that returned a value returned, of the
\* original content when none did.
C26_MutationThreaded ==
    /\ [][\A t \in Threads :
            MutateStep(t) =>
                LET call == fcall'[t]
                    ms == call.muts
                    orig == Produced(call.content) IN
                /\ \A k \in DOMAIN ms : ms[k].hook \in MatchingMutate(call.path)
                /\ \A j, k \in DOMAIN ms : j < k => ms[j].hook < ms[k].hook
                /\ \A k \in DOMAIN ms :
                      ms[k].size = Len(PayloadAfter(orig, ms, k - 1))
                /\ pc'[t] = "sr_enter" =>
                      /\ {ms[k].hook : k \in DOMAIN ms} =
                            MatchingMutate(call.path)
                      /\ call.body = PayloadAfter(orig, ms, Len(ms))]_vars
    /\ [](\A k \in DOMAIN stdin :
            stdin[k].method = "write_file" =>
                \E t \in Threads :
                    /\ op[t] = "write_file" /\ rid[t] = stdin[k].id
                    /\ stdin[k].wire.path = fcall[t].path
                    /\ stdin[k].wire.content =
                          B64Encode(PayloadAfter(Produced(fcall[t].content),
                                                 fcall[t].muts,
                                                 Len(fcall[t].muts))))

\* two write_file requests were sent after two mutate hooks each: in one the
\* first hook returned two bytes for a content of another length and the
\* second, given the size 2, returned None; in the other the first returned
\* None and the second a str, sent in its UTF-8 encoding
C26_Witness ==
    \E t, u \in Threads, j, k \in DOMAIN stdin :
        /\ Len(fcall[t].muts) = 2 /\ Len(fcall[u].muts) = 2
        /\ Len(Produced(fcall[t].content)) # 2
        /\ fcall[t].muts[1].returned = Bytes(<<98, 98>>)
        /\ fcall[t].muts[2].size = 2
        /\ fcall[t].muts[2].returned = NoValue
        /\ stdin[j].id = rid[t]
        /\ stdin[j].wire.content = B64Encode(<<98, 98>>)
        /\ fcall[u].muts[1].returned = NoValue
        /\ fcall[u].muts[2].size = Len(Produced(fcall[u].content))
        /\ fcall[u].muts[2].returned = Str(<<233, 97>>)
        /\ stdin[k].id = rid[u]
        /\ stdin[k].wire.content = B64Encode(<<195, 169, 97>>)

\* ------------------------------------------------ write_file then read_file
\* thread u's read_file returned after thread t's write_file to the same
\* path had returned, and no other call wrote to that path
ReadAfterWrite(t, u) ==
    /\ op[t] = "write_file" /\ out[t].kind = "result"
    /\ op[u] = "read_file" /\ out[u].kind = "result" /\ pc[u] = "done"
    /\ t \in fcall[u].prior
    /\ fcall[u].path = fcall[t].path
    /\ \A w \in Threads \ {t} :
          ~(op[w] = "write_file" /\ fcall[w].path = fcall[t].path)

\* C28: with no mutate hook installed and a supervisor that stores what
\* write_file sends, a read_file of a path made after a write_file of that
\* path returned gives back exactly the bytes written (the UTF-8 encoding
\* when a str was written), for every path and content.
C28_WriteThenReadRoundTrip ==
    \A t, u \in Threads :
        (hooks.mut = <<>> /\ ReadAfterWrite(t, u)) =>
            ReadFileReturn(u) = [ok |-> TRUE, v |-> Produced(fcall[t].content)]

\* a read gave back two bytes, one of them not text, that were written
\* before it: the base64 text carried one padding character
C28_Witness ==
    \E t, u \in Threads :
        /\ hooks.mut = <<>> /\ ReadAfterWrite(t, u)
        /\ fcall[t].content = Bytes(<<255, 97>>)
        /\ files[fcall[t].path].data = <<63, 54, 4, 64>>
        /\ ReadFileReturn(u).v = <<255, 97>>

\* ------------------------------------------------ responses to unknown ids
\* the step in which the reader takes from stdout a response whose id is not
\* in the pending table
DropStep ==
    /\ reader_pc = "read" /\ stdout # <<>> /\ stdout' = Tail(stdout)
    /\ Head(stdout).kind \in {"result", "error"}
    /\ Head(stdout).id \notin pending

\* C29: a response whose id is not in the pending table is dropped: the step
\* that reads it changes no pending entry and not the table, signals no
\* event, changes no caller's position or outcome, and leaves the reader
\* reading, so that it goes on with the following lines.
C29_UnknownIdDropped ==
    [][DropStep =>
          /\ preq' = preq /\ pending' = pending
          /\ pc' = pc /\ out' = out
          /\ reader_pc' = "read"]_vars

\* a request timed out and unregistered; the supervisor then answered it and
\* answered its cancel, the reader has read both answers, the entry was
\* never signalled and the reader is still reading
C29_Witness ==
    \E t \in Threads :
        /\ out[t].kind = "timeout" /\ pc[t] = "done"
        /\ rid[t] \in Answered /\ cid[t] \in Answered
        /\ stdout = <<>> /\ reader_pc = "read"
        /\ ~preq[rid[t]].event

\* ------------------------------------------------ the sinks of exec_stream
\* the text of the notifications ns, in their order, that name method
\* kind: the decoded payloads one after another, a payload that is not
\* base64 contributing nothing
RECURSIVE Payloads(_, _)
Payloads(ns, kind) ==
    IF ns = <<>> THEN <<>>
    ELSE LET n == Head(ns)
             d == B64Decode(n.data) IN
         (IF n.kind = kind /\ d.ok THEN Utf8Decode(d.v) ELSE <<>>)
             \o Payloads(Tail(ns), kind)
\* what a sink holds, nothing when it was not given
SinkOut(t) == IF sinks[t].has_out THEN sinks[t].out ELSE <<>>
SinkErr(t) == IF sinks[t].has_err THEN sinks[t].err ELSE <<>>

\* C27: at every moment the stdout sink of an exec_stream call holds the
\* decoded payloads of the exec_stream.stdout notifications the reader
\* handed to that call, in the order it read them, and nothing else, and
\* likewise the stderr sink; those notifications all carry the call's
\* request id; and once the call has returned its result, they are all the
\* notifications with that id the reader has read, and the result is the one
\* the supervisor sent for that id.
C27_SinksHoldOwnNotifications ==
    \A t \in Threads :
        LET To(n) == n.to = t
            Addressed(n) == n.target = rid[t]
            handed == SelectSeq(notif.seen, To)
            named == SelectSeq(notif.seen, Addressed) IN
        op[t] = "exec_stream" =>
            /\ sinks[t].out = SinkOut(t) /\ sinks[t].err = SinkErr(t)
            /\ \A k \in DOMAIN notif.seen :
                  notif.seen[k].to = t => notif.seen[k].target = rid[t]
            /\ sinks[t].has_out =>
                  sinks[t].out = Payloads(handed, "stdout")
            /\ sinks[t].has_err =>
                  sinks[t].err = Payloads(handed, "stderr")
            /\ out[t].kind = "result" =>
                  /\ sinks[t].has_out =>
                        sinks[t].out = Payloads(named, "stdout")
                  /\ sinks[t].has_err =>
                        sinks[t].err = Payloads(named, "stderr")
                  /\ out[t].val = Payload(rid[t])
                  /\ [id |-> rid[t], kind |-> "result", val |-> out[t].val]
                        \in sent

\* an exec_stream call returned its result after two stdout notifications of
\* different content, the first holding a byte that is not text: its sink
\* holds both texts in the order they were read
C27_Witness ==
    \E t \in Threads :
        /\ op[t] = "exec_stream" /\ pc[t] = "done" /\ out[t].kind = "result"
        /\ sinks[t].has_out
        /\ Len(notif.seen) = 2
        /\ notif.seen[1].data = B64Encode(<<255, 97>>)
        /\ notif.seen[2].data = B64Encode(<<97>>)
        /\ sinks[t].out = <<65533, 97, 97>>

\* C30: the sinks given to an exec_stream call are written only while the
\* call is in progress: no write to them happens after the call has returned
\* or raised.
C30_NoWriteAfterReturn ==
    \A t \in Threads : op[t] = "exec_stream" => ~sinks[t].late

\* ------------------------------------------------- safe batches
\* the matching safe hooks over the deliveries made while the guard was not set
RECURSIVE SumSafeDue(_)
SumSafeDue(ds) ==
    IF ds = <<>> THEN 0
    ELSE (IF Head(ds).active THEN 0 ELSE Head(ds).safe) + SumSafeDue(Tail(ds))
\* the safe callbacks that have begun
SafeBegun == Cardinality({k \in DOMAIN began : ~began[k].dangerous})
\* the safe callbacks that the batch th has still to begin
SafeLeft(th) ==
    IF th.kind # "safe" THEN 0
    ELSE CASE th.st \in {"spawned", "ready"} -> Len(th.hooks) - th.at + 1
           [] th.st = "running" -> Len(th.hooks) - th.at
           [] OTHER -> 0
RECURSIVE SumSafeLeft(_)
SumSafeLeft(ts) ==
    IF ts = <<>> THEN 0 ELSE SafeLeft(Head(ts)) + SumSafeLeft(Tail(ts))

\* C31 as claimed: every event handed to the dispatcher while the guard is
\* not set has each of its matching safe hooks invoked exactly once: the safe
\* callbacks begun, together with those the live batches have still to
\* begin, are as many as the matching safe hooks of the events delivered
\* with the guard not set, so that no such batch is ever dropped.
C31_SafeBatchRunsUnlessGuarded ==
    SafeBegun + SumSafeLeft(hthreads) = SumSafeDue(delivered)

\* the safe batches that have set the guard and not yet cleared it
Executing ==
    {i \in DOMAIN hthreads :
        hthreads[i].kind = "safe" /\ hthreads[i].st \in {"ready", "running", "exit"}}

\* C32 as claimed: at most one batch of safe event hooks is executing at any
\* time, and the guard is set for as long as a batch is executing.
C32_OneBatchUnderGuard ==
    /\ Cardinality(Executing) <= 1
    /\ Executing # {} => hook_active

\* ------------------------------------------------- termination of calls
\* C33 as claimed: every _send_request call made without a timeout that has
\* allocated its id eventually returns or raises, when every thread is
\* scheduled and the supervisor eventually closes its stdout.
C33_CallWithoutTimeoutReturns ==
    \A t \in Threads :
        (pc[t] \in {"sr_reg", "sr_write", "sr_wait"} /\ ~tmo[t])
            ~> (pc[t] = "done")

\* ------------------------------------------------------------ the locks
\* thread t is inside the block of the write lock
Writing(t) == pc[t] \in {"lk_w_in", "lk_cw_in", "lk_flush", "lk_cflush"}
\* the pieces in the pipe are whole lines, one after the other; only the last
\* line can lack its tail, and then its writer is still before its flush
WholeLines ==
    \A k \in 1..Len(pipe) :
        IF k % 2 = 1
        THEN /\ pipe[k].part = "head"
             /\ IF k < Len(pipe)
                THEN pipe[k + 1] = [id |-> pipe[k].id, part |-> "tail"]
                ELSE \E t \in Threads :
                        /\ pc[t] \in {"lk_flush", "lk_cflush"}
                        /\ wbuf[t] = <<[id |-> pipe[k].id, part |-> "tail"]>>
        ELSE pipe[k].part = "tail"
\* the lines the supervisor has are the flushed lines of the pipe, in order
LinesArePipe ==
    \A k \in 1..Len(stdin) :
        /\ 2 * k <= Len(pipe)
        /\ pipe[2 * k].id = stdin[k].id
\* a step that writes or flushes is a step of the holder of the write lock
WriterHoldsLock ==
    \A t \in Threads :
        (Writing(t) /\ pc'[t] # pc[t]) => locks["write"] = t

\* C34: every outbound line (request or cancel) is written and flushed by the
\* holder of the write lock, and what is in the pipe of stdin is always a
\* sequence of whole lines: no piece of one caller's line lies inside the
\* line of another.
C34_WholeLinesUnderWriteLock ==
    /\ [](WholeLines /\ LinesArePipe)
    /\ [][WriterHoldsLock /\ (pipe' # pipe => \E t \in Threads : Writing(t) /\ pc'[t] # pc[t])]_vars

\* two callers' request lines are in the pipe, the first piece of a cancel
\* line went out before its flush, and the other caller waits for the write
\* lock with its own cancel
C34_Witness ==
    /\ Len(pipe) >= 5
    /\ Len(pipe) % 2 = 1
    /\ \E t \in Threads : pc[t] = "lk_cflush"
    /\ \E t \in Threads : pc[t] = "lk_cw"

\* the locks a thread (a caller, or the reader as ReaderId) holds
HeldBy(w) == {l \in LockNames : locks[l] = w}
\* the position of a thread, callers and the reader alike
At(w) == IF w = ReaderId THEN reader_pc ELSE pc[w]
\* the positions inside the `with` block of lock l
InsideOf(l) ==
    CASE l = "hook" -> {"lk_hook_in", "lk_ev_in"}
      [] l = "id" -> {"lk_id_in", "lk_cid_in"}
      [] l = "pending" -> {"lk_reg_in", "lk_pop_in", "lk_get_in", "lk_eof_in"}
      [] OTHER -> {"lk_w_in", "lk_cw_in", "lk_flush", "lk_cflush"}
\* a step inside a `with` block, by whoever is there
StepInside ==
    \/ LkReaderGet
    \/ LkReaderFail
    \/ LkReaderEvent
    \/ \E t \in Threads : \/ LkSnapshot(t)
                           \/ LkNextId(t)
                           \/ LkRegister(t)
                           \/ LkWrite(t)
                           \/ LkFlush(t)
                           \/ LkPop(t)
\* somebody stands before a `with` statement
SomeoneAcquiring ==
    \/ reader_pc \in ReaderAcquirePoints
    \/ \E t \in Threads : pc[t] \in AcquirePoints

\* C35: a thread that waits on a completion signal (a caller in event.wait,
\* the reader in readline) holds none of the four locks; nobody holds two of
\* them at once; a held lock belongs to a thread inside that lock's block,
\* and whenever somebody stands before a `with` statement, that thread or a
\* thread inside a block can take its step: nothing deadlocks on the locks.
C35_NoLockAcrossWait ==
    /\ \A w \in Threads \cup {ReaderId} :
          /\ Cardinality(HeldBy(w)) <= 1
          /\ At(w) \in {"lk_wait", "read", "idle", "done"} => HeldBy(w) = {}
    /\ \A l \in LockNames :
          locks[l] # Free => At(locks[l]) \in InsideOf(l)
    /\ SomeoneAcquiring =>
          \/ ENABLED LkReaderAcquire
          \/ \E t \in Threads : ENABLED LkAcquire(t)
          \/ ENABLED StepInside

\* one caller waits for its response while the other caller flushes inside
\* the write lock and the reader looks a response up inside the pending lock
C35_Witness ==
    /\ \E t \in Threads : pc[t] = "lk_wait" /\ ~preq[rid[t]].event
    /\ \E t \in Threads : pc[t] = "lk_flush" /\ locks["write"] = t
    /\ reader_pc = "lk_get_in" /\ locks["pending"] = ReaderId

\* ------------------------------------------- callbacks that raise
\* the step in which a running event callback raises
RaiseStep ==
    /\ Len(began') = Len(began)
    /\ \E k \in DOMAIN began : began'[k].raised /\ ~began[k].raised
\* the step in which a safe batch leaves its finally block
BatchEndStep ==
    \E i \in DOMAIN hthreads :
        hthreads[i].st = "exit" /\ hthreads' = Without(i)

\* C36: an exception raised by an event callback, safe or dangerous, is
\* swallowed: a safe batch reaches its end only after its last hook (a raise
\* of an earlier hook takes it to the next hook), the end of a batch clears
\* the guard, and the step in which a callback raises leaves the reader in its
\* loop and changes no pending request, no completion signal and no caller's
\* outcome.
C36_CallbackExceptionSwallowed ==
    /\ [](\A i \in DOMAIN hthreads :
            hthreads[i].st = "exit" => hthreads[i].at = Len(hthreads[i].hooks))
    /\ [][/\ RaiseStep => /\ reader_pc' = reader_pc /\ reader_pc = "read"
                          /\ UNCHANGED <<preq, pending, out, pc, stdout>>
          /\ BatchEndStep => ~hook_active']_vars

\* the first safe callback of a batch of two raised and the second one began,
\* a dangerous callback raised too, and a caller got its response afterwards
C36_Witness ==
    /\ \E k \in DOMAIN began : began[k].raised /\ began[k].dangerous
    /\ \E k \in DOMAIN began :
          /\ began[k].raised /\ ~began[k].dangerous
          /\ \E j \in DOMAIN began : j > k /\ ~began[j].dangerous
    /\ \E i \in DOMAIN hthreads : hthreads[i].kind = "safe" /\ hthreads[i].at = 2
    /\ \E t \in Threads : out[t].kind = "result" /\ op[t] = "request"

\* ------------------------------------------- hooks that fail a VFS call
\* an action hook invoked by thread t's call raised, or returned something
\* other than allow, empty or block
BadAction(t) ==
    \E k \in DOMAIN fcall[t].acts :
        \/ fcall[t].acts[k].returned = HookRaises
        \/ NormDecision(fcall[t].acts[k].returned) \notin {"", "allow", "block"}
\* a mutate hook invoked by thread t's call raised, or returned something
\* that is not bytes, str or None
BadMutate(t) ==
    \E k \in DOMAIN fcall[t].muts :
        fcall[t].muts[k].returned.t \notin {"none", "str", "bytes"}
\* the request lines of file calls the supervisor has been sent
FileLines == {k \in DOMAIN stdin : stdin[k].method \in FileOps}

\* C37: when a matching action hook returns something other than allow, empty
\* or block, a matching mutate hook returns something that is not bytes, str
\* or None, or a hook of either kind raises, the VFS call has raised to its
\* caller, it has allocated no request id, and stdin holds request lines only
\* of the other file calls.
C37_BadHookAbortsCall ==
    /\ \A t \in Threads :
          (op[t] \in FileOps /\ (BadAction(t) \/ BadMutate(t))) =>
              /\ pc[t] = "done"
              /\ out[t].kind \in {"hook_invalid", "mutate_invalid", "hook_raised"}
              /\ rid[t] = 0
    /\ Cardinality(FileLines) <=
          Cardinality({t \in Threads : op[t] \in FileOps
                                        /\ ~BadAction(t) /\ ~BadMutate(t)})

\* a read or a listing whose action hook raised, and a write whose action
\* hooks allowed it and whose mutate hook returned an int
C37_Witness ==
    /\ \E t \in Threads :
          /\ op[t] \in {"read_file", "list_files"}
          /\ out[t].kind = "hook_raised"
    /\ \E t \in Threads :
          /\ op[t] = "write_file"
          /\ fcall[t].acts # <<>>
          /\ out[t].kind = "mutate_invalid"

\* ------------------------------------------------ sinks that raise
\* a response for the request caller t waits on has arrived on stdout
ResponseArrived(t) ==
    \E k \in DOMAIN stdout :
        stdout[k].id = rid[t] /\ stdout[k].kind \in {"result", "error"}

\* C38: an exception raised by a caller's exec_stream sink while the reader
\* delivers a notification does not stop the reader: while the supervisor's
\* stdout is open the reader is in its loop, so a response that has arrived
\* for a waiting caller is still going to be delivered.
C38_ReaderSurvivesSinkError ==
    /\ reader_pc = "done" => stdoutClosed
    /\ \A t \in Threads :
          (pc[t] = "sr_wait" /\ ResponseArrived(t)) => reader_pc # "done"

\* ------------------------------------------- create() that fails again
\* thread t's create() sent its request and _send_request raised
RpcFailed(t) ==
    /\ op[t] = "create" /\ pc[t] = "done" /\ rid[t] # 0
    /\ out[t].kind \notin {"none", "result"}
\* no create() after the first one has been answered with a result
NoneSucceeded == \A t \in Threads : out[t].kind # "result"

\* C39: on a client that has hooks and a VM id from an earlier create(), a
\* create() whose RPC fails (an error response, or EOF) installs none of its
\* hooks and does not restore the earlier ones: as long as no other create()
\* has succeeded the three tables are empty and vm_id is the earlier id.
C39_FailedCreateLeavesTablesEmpty ==
    ((\E t \in Threads : RpcFailed(t)) /\ NoneSucceeded) =>
        /\ hooks = NoHooks
        /\ vm_id = Payload(1)

\* the first create() installed hooks; one later create() got an error
\* response and another one failed at EOF
C39_Witness ==
    /\ stdin[1].wire # NoWire
    /\ \E t \in Threads : RpcFailed(t) /\ out[t].kind = "rpc_error"
    /\ \E t \in Threads : RpcFailed(t) /\ out[t].kind = ClosedErr.kind
    /\ hooks = NoHooks

\* --------------------------------------------- letter case of ops, actions
\* the string has no upper-case letter
IsLower(x) == Lower(x) = x
\* the hooks of the three local tables
LocalHooks ==
    LET t == compiled.tables IN
    {t.ev[k] : k \in DOMAIN t.ev} \cup {t.mut[k] : k \in DOMAIN t.mut}
        \cup {t.act[k] : k \in DOMAIN t.act}

\* C40: ops and actions given in any letter case are stored lowercase in every
\* compiled output: the ops of every local hook, and the action and the ops
\* of every wire rule, have no upper-case letter; and a local hook made from
\* a rule for "Write" matches the operation "write".
C40_OpsAndActionsStoredLowercase ==
    (compiled.kind = "ok" /\ cfg_in # NoConfig) =>
        /\ \A h \in LocalHooks :
              /\ \A o \in h.ops : IsLower(o)
              /\ h.ops # {} => "write" \in h.ops
        /\ \A k \in DOMAIN WireRules :
              /\ IsLower(WireRules[k].action)
              /\ \A j \in DOMAIN WireRules[k].ops : IsLower(WireRules[k].ops[j])
====
